---------------------------- MODULE Spec2Model ----------------------------
(***************************************************************************)
(* A model of the BB16 BLE wire protocol engine of BlackbirdSportsUploader *)
(* (src/src/blackbird_sports_uploader/bb16.py): the frame codec            *)
(* (escape / unescape / CRC), the message codec (Message.to_bytes and      *)
(* Message.from_bytes with the class registry and the payload codecs) and  *)
(* the per-characteristic PacketStream (on_notify, read, write, clear).    *)
(*                                                                         *)
(* Bytes are integers 0..255, byte strings are sequences of bytes, Python  *)
(* str values are sequences of ASCII codes.  A Python exception is an      *)
(* "err" field different from "none".                                      *)
(***************************************************************************)
EXTENDS Integers, Sequences, FiniteSets, TLC

VARIABLES
    \* ---- codec harness: one pure function applied to one drawn input ----
    cx_pc,      \* which function has been applied so far
    cx_in,      \* the byte string drawn as input
    cx_msg,     \* the message drawn as input
    cx_wire,    \* bytes produced by escape / to_bytes (possibly corrupted)
    cx_unesc,   \* result of unescape: [err, val]
    cx_dec,     \* result of from_bytes: [err, msg]
    \* ---- PacketStream (bb16.py:235-284) ----
    seq,          \* self.seq
    rx_buf,       \* self.rx_buf
    rx_messages,  \* self.rx_messages: entries [m, stamp], stamp = arrival number
    rx_sem,       \* self.rx_sem (the semaphore's counter)
    rd_pc,        \* where read() is: "idle", or "acking" (awaiting the ack write)
    rd_msg,       \* the entry read() has popped and is acknowledging
    \* ---- the BLE peer and transport of that stream ----
    air,          \* bytes of the peer's current frame not yet notified
    tx,           \* frames write_gatt_char accepted during the current operation
    \* ---- observation (history variables) ----
    last,         \* outcome of the last operation: [op, err, m, stamp]
    nsent,        \* frames the peer has started to send
    nrx,          \* messages on_notify has enqueued
    ndeq,         \* messages read() has popped
    nret,         \* messages read() has returned
    nack,         \* ack frames the transport has accepted
    lastret,      \* stamp of the last message read() returned
    goodsofar,    \* every popped frame carried sid = stamp mod 16, no clear(), no rejected write
    faulted,      \* the environment has failed once: a frame out of sequence, a
                  \* corrupt frame or a write the transport rejected
    nclear,       \* calls of clear() so far
    nafter,       \* frames the peer has started since the first fault or clear()
    \* ---- BB16.download_file (bb16.py:457-484) over its GET and PUSH streams ----
    dl_pc,        \* where download_file is: "ready", "await_resp", "await_info",
                  \* "await_frag", "returned", "raised"
    dl_filename,  \* the argument filename
    dl_save,      \* whether save_dir was given
    get_seq,      \* get_stream.seq
    get_q,        \* get_stream.rx_messages
    push_seq,     \* push_stream.seq
    push_q,       \* push_stream.rx_messages
    dl_info,      \* fileInfo: the message read on PUSH before the loop
    dl_data,      \* fileData
    dl_result,    \* what the call returned or raised: [kind, data, err]
    files,        \* save_dir: file name -> content, or NoFile
    \* ---- the device during the download, and observation ----
    get_sent,     \* messages the device has sent on GET
    push_sent,    \* messages the device has sent on PUSH
    get_tx,       \* messages the transport accepted on GET, as sent on the wire
    push_tx,      \* messages the transport accepted on PUSH
    dl_frags,     \* the fragments read in the loop, in order: [data, final]
    dl_reads,     \* read() calls made on PUSH
    \* ---- one session: _run, BB16.connect, sync, disconnect (bb16.py:437-532) ----
    sy_pc,         \* where the session is: "idle", "start", "open", "entered", "hs1",
                   \* "hs2", "filelist", "records", "aux", "closing",
                   \* "disconnecting", "ended"
    sy_connected,  \* client.connect() has succeeded and client.disconnect() has not
    sy_subs,       \* characteristics start_notify has subscribed, in order
    sy_unsubs,     \* characteristics stop_notify has unsubscribed, in order
    sy_devInfo,    \* devInfo: the message read at the first step of sync
    sy_fileStatus, \* fileStatus: the message read at the second step
    sy_lines,      \* the lines download_records iterates over
    sy_i,          \* the line (or the auxiliary file) being handled
    sy_filenames,  \* filenames, the list download_records builds
    sy_result,     \* what sync returned or raised: [kind, val, err, at]
    sy_end,        \* how _run ended: "none" while it runs, "ok", or the error
    \* ---- the device during the session, and observation ----
    dv_pc,         \* "idle", "request" (a request awaits its answer), "info", "frag"
    dv_list,       \* the device's filelist.txt
    dv_hs,         \* the classes of the device's two answers in the handshake
    sy_seen,       \* the listings the loop has reached: [name, size, ondisk, sent]
    sy_got,        \* the records download_file has returned data for, in order
    \* ---- the sync command of main.py ----
    cm_pc,         \* "idle", "loop" (top of while True), "pass", "session", "files", "ended"
    cm_once,       \* the --once option
    cm_creds,      \* settings.BB_USERNAME and settings.BB_PASSWORD are set
    cm_session,    \* SESSION_FILE holds a session get_session() can load
    cm_dir,        \* the names of the files in DATA_DIR
    cm_file,       \* UPLOAD_HISTORY_FILE: [kind, names]
    cm_history,    \* history, the set load_history returned, with the names added
    cm_new,        \* new_files, in the order glob yielded them
    cm_i,          \* the file of new_files the for loop is at
    cm_exit,       \* how the command ended: "none", "break", "return", "raise"
    \* ---- observation of the command ----
    cm_cycle,      \* iterations of while True begun: calls of bb16.download()
    cm_npass,      \* upload passes begun: calls of load_history()
    cm_nupl,       \* calls of upload_record
    cm_uploaded,   \* the names upload_record has returned True for
    cm_last,       \* the last file handled: [op, file, ok]
    cm_failed,     \* the names whose conversion or upload failed in this pass
    cm_retry,      \* the names that failed in the pass before this one
    cm_tried       \* the names the for loop has handled in this pass

codecVars  == <<cx_pc, cx_in, cx_msg, cx_wire, cx_unesc, cx_dec>>
streamVars == <<seq, rx_buf, rx_messages, rx_sem, rd_pc, rd_msg>>
envVars    == <<air, tx>>
histVars   == <<last, nsent, nrx, ndeq, nret, nack, lastret, goodsofar,
                faulted, nclear, nafter>>
dlVars     == <<dl_pc, dl_filename, dl_save, get_seq, get_q, push_seq, push_q,
                dl_info, dl_data, dl_result, files, get_sent, push_sent, get_tx,
                push_tx, dl_frags, dl_reads>>
syVars     == <<sy_pc, sy_connected, sy_subs, sy_unsubs, sy_devInfo, sy_fileStatus,
                sy_lines, sy_i, sy_filenames, sy_result, sy_end, dv_pc, dv_list,
                dv_hs, sy_seen, sy_got>>
cmVars     == <<cm_pc, cm_once, cm_creds, cm_session, cm_dir, cm_file, cm_history,
                cm_new, cm_i, cm_exit, cm_cycle, cm_npass, cm_nupl, cm_uploaded,
                cm_last, cm_failed, cm_retry, cm_tried>>
vars == <<codecVars, streamVars, envVars, histVars, dlVars, syVars, cmVars>>
\* everything but the codec harness
streamSide == <<streamVars, envVars, histVars, dlVars, syVars, cmVars>>
\* everything but the single packet stream
codecSide == <<codecVars, dlVars, syVars, cmVars>>

-----------------------------------------------------------------------------
(* Bounds of the model *)

\* longest byte string drawn as input of escape / unescape
MaxLen == 3
\* frames the peer sends on the stream (17 reads cross the 15 -> 0 wrap)
MaxFrames == 17
\* messages waiting in rx_messages
MaxQueue == 2
\* calls of clear()
MaxClear == 1
\* after the first fault or clear() the peer still sends as many frames as the
\* queue holds, and the first frames of a run arrive cut into several notifications
MaxAfter == MaxQueue
MaxChunked == MaxQueue
\* messages the device pushes during one download: FileInfo and three fragments
MaxPush == 4
\* largest size a FileInfo announces
MaxSize == 3

-----------------------------------------------------------------------------
(* Bytes and bit operations *)

Byte == 0..255

RECURSIVE Xor(_, _)
\* a ^ b on non-negative integers
Xor(a, b) ==
    IF a = 0 THEN b
    ELSE IF b = 0 THEN a
    ELSE ((a + b) % 2) + 2 * Xor(a \div 2, b \div 2)

RECURSIVE Pow2(_)
Pow2(n) == IF n = 0 THEN 1 ELSE 2 * Pow2(n - 1)

\* Python slices data[i:j] with 1-based inclusive positions
Slice(s, i, j) == IF j < i THEN <<>> ELSE SubSeq(s, i, j)

\* int.from_bytes(s, "big")
RECURSIVE FromBE(_)
FromBE(s) ==
    IF Len(s) = 0 THEN 0
    ELSE 256 * FromBE(SubSeq(s, 1, Len(s) - 1)) + s[Len(s)]

\* n.to_bytes(2, "big") for 0 <= n < 65536
ToBE16(n) == <<n \div 256, n % 256>>

-----------------------------------------------------------------------------
(* binascii.crc_hqx: CRC-CCITT, polynomial 0x1021, table driven *)

RECURSIVE CrcShift(_, _)
CrcShift(c, k) ==
    IF k = 0 THEN c
    ELSE CrcShift(IF c >= 32768 THEN Xor((c * 2) % 65536, 4129)
                                ELSE (c * 2) % 65536,
                  k - 1)

CrcTable == [i \in Byte |-> CrcShift(i * 256, 8)]

\* a ^ b on bytes, tabulated
XorTable == [a \in Byte |-> [b \in Byte |-> Xor(a, b)]]

\* crc = ((crc << 8) & 0xff00) ^ crctab_hqx[(crc >> 8) ^ byte]
CrcStep(crc, byte) ==
    LET t == CrcTable[XorTable[crc \div 256][byte]]
    IN  XorTable[crc % 256][t \div 256] * 256 + (t % 256)

RECURSIVE CrcFrom(_, _, _)
CrcFrom(data, i, crc) ==
    IF i > Len(data) THEN crc
    ELSE CrcFrom(data, i + 1, CrcStep(crc, data[i]))

crc_hqx(data, init) == CrcFrom(data, 1, init)

-----------------------------------------------------------------------------
(* Message.escape / Message.unescape (bb16.py:94-128) *)

START == 126
END == 127
ESC == 125

RECURSIVE EscapeFrom(_, _)
EscapeFrom(data, i) ==
    IF i > Len(data) THEN <<>>
    ELSE (IF data[i] \in {ESC, START, END}
            THEN <<ESC, data[i] - ESC + 1>>
            ELSE <<data[i]>>) \o EscapeFrom(data, i + 1)

RECURSIVE EscapeDelimitersFrom(_, _)
EscapeDelimitersFrom(data, i) ==
    IF i > Len(data) THEN <<>>
    ELSE (IF data[i] \in {START, END}
            THEN <<ESC, data[i] - ESC + 1>>
            ELSE <<data[i]>>) \o EscapeDelimitersFrom(data, i + 1)

\* escape that protects the delimiters but forgets the escape byte itself
escape_forgets_esc(data) == EscapeDelimitersFrom(data, 1)

RECURSIVE EscapeOnlyEscFrom(_, _)
EscapeOnlyEscFrom(data, i) ==
    IF i > Len(data) THEN <<>>
    ELSE (IF data[i] = ESC THEN <<ESC, 1>> ELSE <<data[i]>>)
         \o EscapeOnlyEscFrom(data, i + 1)

\* escape that protects the escape byte but lets the delimiters through
escape_only_esc(data) == EscapeOnlyEscFrom(data, 1)

escape(data) == EscapeFrom(data, 1)

RECURSIVE UnescapeFrom(_, _, _)
\* the while loop of unescape; the three asserts give err = "escape"
UnescapeFrom(data, i, buf) ==
    IF i > Len(data) THEN [err |-> "none", val |-> buf]
    ELSE IF data[i] = ESC
      THEN IF i + 1 > Len(data) THEN [err |-> "escape", val |-> <<>>]
           ELSE IF ~(data[i + 1] > 0) THEN [err |-> "escape", val |-> <<>>]
           ELSE IF ~(data[i + 1] < 4) THEN [err |-> "escape", val |-> <<>>]
           ELSE UnescapeFrom(data, i + 2, Append(buf, data[i + 1] + ESC - 1))
      ELSE UnescapeFrom(data, i + 1, Append(buf, data[i]))

unescape(data) == UnescapeFrom(data, 1, <<>>)

-----------------------------------------------------------------------------
(* Enumerations and the class registry (bb16.py:30-66, 166-183, 227-429) *)

CmdType == [Get |-> 0, Post |-> 1, Push |-> 2]
TransType == [Default |-> 0, Response |-> 1, Ack |-> 2]
Oid == [Invalid |-> 0, CheckPower |-> 64, GetCustomer |-> 52, GetDeviceInfo |-> 1,
        GetFile |-> 41, GetFileStatus |-> 50, GetFunction |-> 4, GetHistory |-> 21,
        GetStorage |-> 51, GetSupport |-> 5, OffDevice |-> 63, PostDeleteFile |-> 42,
        PostFileInfo |-> 43, PostReset |-> 3, PostStopFile |-> 45, PostUtcInfo |-> 2,
        ReceiveFile |-> 44, ResultPower |-> 65, RunInfo |-> 10000, RunStart |-> 10001,
        SaveDevice |-> 62, ScanDevice |-> 61, TestCmd |-> 255, Unknown |-> 65535]
ReceiveFileFlag == [First |-> 0, Middle |-> 1, Last |-> 2, Single |-> 3]
DevType == [DEV_TYPE_HANDWATCH |-> 0, DEV_TYPE_HUB |-> 1, DEV_TYPE_BIKE_COMPUTER |-> 2]
FileTransSize == [FILE_TRANS_SIZE_128 |-> 0, FILE_TRANS_SIZE_256 |-> 1,
                  FILE_TRANS_SIZE_512 |-> 2, FILE_TRANS_SIZE_1024 |-> 3]

\* the members of an enumeration, as Enum(value) accepts them
Values(enum) == {enum[n] : n \in DOMAIN enum}

\* a registry with one more class, registered with the defaults alone
Classes_plain ==
    [GetAck                |-> [cmd |-> CmdType.Push, trans |-> TransType.Ack,      oid |-> Oid.Invalid],
     PushAck               |-> [cmd |-> CmdType.Get,  trans |-> TransType.Ack,      oid |-> Oid.Invalid],
     GetDeviceInfoRequest  |-> [cmd |-> CmdType.Get,  trans |-> TransType.Default,  oid |-> Oid.GetDeviceInfo],
     GetDeviceInfoResponse |-> [cmd |-> CmdType.Get,  trans |-> TransType.Response, oid |-> Oid.GetDeviceInfo],
     GetFile               |-> [cmd |-> CmdType.Get,  trans |-> TransType.Default,  oid |-> Oid.GetFile],
     GetFileResponse       |-> [cmd |-> CmdType.Get,  trans |-> TransType.Response, oid |-> Oid.GetFile],
     GetFileStatus         |-> [cmd |-> CmdType.Get,  trans |-> TransType.Default,  oid |-> Oid.GetFileStatus],
     GetFileStatusResponse |-> [cmd |-> CmdType.Get,  trans |-> TransType.Response, oid |-> Oid.GetFileStatus],
     FileInfo              |-> [cmd |-> CmdType.Push, trans |-> TransType.Default,  oid |-> Oid.PostFileInfo],
     ReceiveFile           |-> [cmd |-> CmdType.Push, trans |-> TransType.Default,  oid |-> Oid.ReceiveFile],
     Plain                 |-> [cmd |-> CmdType.Get,  trans |-> TransType.Default,  oid |-> Oid.Invalid]]

\* every subclass of Message with the keywords of its class statement
\* (defaults of __init_subclass__: cmd_type Get, trans_type Default, oid Invalid)
Classes ==
    [GetAck                |-> [cmd |-> CmdType.Push, trans |-> TransType.Ack,      oid |-> Oid.Invalid],
     PushAck               |-> [cmd |-> CmdType.Get,  trans |-> TransType.Ack,      oid |-> Oid.Invalid],
     GetDeviceInfoRequest  |-> [cmd |-> CmdType.Get,  trans |-> TransType.Default,  oid |-> Oid.GetDeviceInfo],
     GetDeviceInfoResponse |-> [cmd |-> CmdType.Get,  trans |-> TransType.Response, oid |-> Oid.GetDeviceInfo],
     GetFile               |-> [cmd |-> CmdType.Get,  trans |-> TransType.Default,  oid |-> Oid.GetFile],
     GetFileResponse       |-> [cmd |-> CmdType.Get,  trans |-> TransType.Response, oid |-> Oid.GetFile],
     GetFileStatus         |-> [cmd |-> CmdType.Get,  trans |-> TransType.Default,  oid |-> Oid.GetFileStatus],
     GetFileStatusResponse |-> [cmd |-> CmdType.Get,  trans |-> TransType.Response, oid |-> Oid.GetFileStatus],
     FileInfo              |-> [cmd |-> CmdType.Push, trans |-> TransType.Default,  oid |-> Oid.PostFileInfo],
     ReceiveFile           |-> [cmd |-> CmdType.Push, trans |-> TransType.Default,  oid |-> Oid.ReceiveFile]]

ClassNames == DOMAIN Classes

\* Message._REGISTRY: (cmd_type, trans_type, oid) -> class
REGISTRY ==
    [k \in {Classes[c] : c \in ClassNames} |-> CHOOSE c \in ClassNames : Classes[c] = k]

\* the properties cmd_type, trans_type and oid of a message
cmd_type(m) == Classes[m.cls].cmd
trans_type(m) == Classes[m.cls].trans
oid(m) == Classes[m.cls].oid

NoArgs == <<>>
NoMessage == [cls |-> "None", sid |-> 0, args |-> NoArgs]

\* an ack built without the sid of the message
ack_default_sid(m) ==
    LET key == [cmd |-> cmd_type(m), trans |-> TransType.Ack, oid |-> Oid.Invalid]
    IN  IF key \in DOMAIN REGISTRY
          THEN [err |-> "none", msg |-> [cls |-> REGISTRY[key], sid |-> 0, args |-> NoArgs]]
          ELSE [err |-> "KeyError", msg |-> NoMessage]

\* Message.ack (bb16.py:217-221); a missing registry key is a KeyError
ack(m) ==
    LET key == [cmd |-> cmd_type(m), trans |-> TransType.Ack, oid |-> Oid.Invalid]
    IN  IF key \in DOMAIN REGISTRY
          THEN [err |-> "none", msg |-> [cls |-> REGISTRY[key], sid |-> m.sid, args |-> NoArgs]]
          ELSE [err |-> "KeyError", msg |-> NoMessage]

-----------------------------------------------------------------------------
(* The protobuf wire format the _ProtoDef classes dump and load             *)
(* (pure_protobuf: varint keys, wire type 0 = varint, 2 = length-delimited) *)

RECURSIVE Varint(_)
Varint(n) == IF n < 128 THEN <<n>> ELSE <<(n % 128) + 128>> \o Varint(n \div 128)

PbInt(tag, n) == Varint(tag * 8) \o Varint(n)
PbStr(tag, str) == Varint(tag * 8 + 2) \o Varint(Len(str)) \o str

\* sint32: ZigZagInt
ZigZag(n) == IF n >= 0 THEN 2 * n ELSE -2 * n - 1
UnZigZag(v) == IF v % 2 = 0 THEN v \div 2 ELSE -((v + 1) \div 2)

RECURSIVE ReadVarint(_, _)
\* the varint starting at position i: [ok, val, nxt]
ReadVarint(b, i) ==
    IF i > Len(b) THEN [ok |-> FALSE, val |-> 0, nxt |-> i]
    ELSE IF b[i] < 128 THEN [ok |-> TRUE, val |-> b[i], nxt |-> i + 1]
    ELSE LET r == ReadVarint(b, i + 1)
         IN  [ok |-> r.ok, val |-> (b[i] - 128) + 128 * r.val, nxt |-> r.nxt]

RECURSIVE PbFields(_, _, _)
\* the fields of a serialized message, in order: [ok, fields]
PbFields(b, i, acc) ==
    IF i > Len(b) THEN [ok |-> TRUE, fields |-> acc]
    ELSE LET k == ReadVarint(b, i) IN
         IF ~k.ok \/ k.val \div 8 = 0 THEN [ok |-> FALSE, fields |-> <<>>]
         ELSE IF k.val % 8 = 0 THEN
             LET v == ReadVarint(b, k.nxt) IN
             IF ~v.ok THEN [ok |-> FALSE, fields |-> <<>>]
             ELSE PbFields(b, v.nxt,
                    Append(acc, [tag |-> k.val \div 8, wt |-> 0, num |-> v.val, str |-> <<>>]))
         ELSE IF k.val % 8 = 2 THEN
             LET n == ReadVarint(b, k.nxt) IN
             IF ~n.ok \/ n.nxt + n.val - 1 > Len(b) THEN [ok |-> FALSE, fields |-> <<>>]
             ELSE PbFields(b, n.nxt + n.val,
                    Append(acc, [tag |-> k.val \div 8, wt |-> 2, num |-> 0,
                                 str |-> Slice(b, n.nxt, n.nxt + n.val - 1)]))
         ELSE [ok |-> FALSE, fields |-> <<>>]

\* _ProtoDef.loads(payload) seen through one field: the last occurrence of tag
PbHas(fs, tag) == \E i \in 1..Len(fs) : fs[i].tag = tag
PbGet(fs, tag) ==
    fs[CHOOSE i \in 1..Len(fs) :
          fs[i].tag = tag /\ \A j \in (i + 1)..Len(fs) : fs[j].tag # tag]

IsText(str) == \A i \in 1..Len(str) : str[i] < 128
PbIntOk(fs, tag) == PbHas(fs, tag) /\ PbGet(fs, tag).wt = 0
PbStrOk(fs, tag) == PbHas(fs, tag) /\ PbGet(fs, tag).wt = 2 /\ IsText(PbGet(fs, tag).str)
\* a field with a default may be absent, but not malformed
PbOptIntOk(fs, tag) == PbHas(fs, tag) => PbGet(fs, tag).wt = 0

-----------------------------------------------------------------------------
(* parse_payload / export_payload of every class (bb16.py:185-190, 304-429) *)

PayloadError == [err |-> "payload", args |-> NoArgs]

parse_payload(cls, payload) ==
    IF cls = "GetDeviceInfoResponse" THEN
        LET p == PbFields(payload, 1, <<>>) IN
        IF ~p.ok \/ ~PbIntOk(p.fields, 1) \/ ~PbOptIntOk(p.fields, 2)
           \/ ~PbStrOk(p.fields, 3) \/ ~PbStrOk(p.fields, 4) \/ ~PbStrOk(p.fields, 5)
           \/ ~PbStrOk(p.fields, 6) \/ ~PbIntOk(p.fields, 7)
        THEN PayloadError
        ELSE LET fts == IF PbHas(p.fields, 2) THEN PbGet(p.fields, 2).num
                        ELSE FileTransSize.FILE_TRANS_SIZE_512
             IN  IF PbGet(p.fields, 1).num \notin Values(DevType)
                    \/ fts \notin Values(FileTransSize)
                 THEN PayloadError
                 ELSE [err |-> "none",
                       args |-> [dev_type |-> PbGet(p.fields, 1).num,
                                 file_trans_size |-> fts,
                                 hardware_version |-> PbGet(p.fields, 3).str,
                                 software_version |-> PbGet(p.fields, 4).str,
                                 serial_number |-> PbGet(p.fields, 5).str,
                                 protocol_version |-> PbGet(p.fields, 6).str,
                                 ble_mtu |-> PbGet(p.fields, 7).num]]
    ELSE IF cls = "GetFile" THEN
        LET p == PbFields(payload, 1, <<>>) IN
        IF ~p.ok \/ ~PbStrOk(p.fields, 1) THEN PayloadError
        ELSE [err |-> "none", args |-> [filename |-> PbGet(p.fields, 1).str]]
    ELSE IF cls = "GetFileResponse" THEN
        LET p == PbFields(payload, 1, <<>>) IN
        IF ~p.ok \/ ~PbOptIntOk(p.fields, 1) THEN PayloadError
        ELSE [err |-> "none",
              args |-> [exist |-> PbHas(p.fields, 1) /\ PbGet(p.fields, 1).num # 0]]
    ELSE IF cls = "FileInfo" THEN
        LET p == PbFields(payload, 1, <<>>) IN
        IF ~p.ok \/ ~PbStrOk(p.fields, 1) \/ ~PbIntOk(p.fields, 2) THEN PayloadError
        ELSE [err |-> "none",
              args |-> [filename |-> PbGet(p.fields, 1).str,
                        size |-> UnZigZag(PbGet(p.fields, 2).num)]]
    ELSE IF cls = "ReceiveFile" THEN
        IF Len(payload) < 2 \/ payload[2] \notin Values(ReceiveFileFlag) THEN PayloadError
        ELSE [err |-> "none",
              args |-> [seq |-> payload[1], flag |-> payload[2],
                        data |-> Slice(payload, 3, Len(payload))]]
    ELSE [err |-> "none", args |-> NoArgs]

export_payload(m) ==
    IF m.cls = "GetDeviceInfoResponse" THEN
        PbInt(1, m.args.dev_type) \o PbInt(2, m.args.file_trans_size)
        \o PbStr(3, m.args.hardware_version) \o PbStr(4, m.args.software_version)
        \o PbStr(5, m.args.serial_number) \o PbStr(6, m.args.protocol_version)
        \o PbInt(7, m.args.ble_mtu)
    ELSE IF m.cls = "GetFile" THEN PbStr(1, m.args.filename)
    ELSE IF m.cls = "GetFileResponse" THEN PbInt(1, IF m.args.exist THEN 1 ELSE 0)
    ELSE IF m.cls = "FileInfo" THEN
        PbStr(1, m.args.filename) \o PbInt(2, ZigZag(m.args.size))
    ELSE IF m.cls = "ReceiveFile" THEN <<m.args.seq, m.args.flag>> \o m.args.data
    ELSE <<>>

-----------------------------------------------------------------------------
(* Message.to_bytes (bb16.py:192-215) and Message.from_bytes (bb16.py:130-164) *)

CRC_INIT == 65535

\* a header that masks the sid with 0x07
Header_3bit(m, sid) == cmd_type(m) * 64 + trans_type(m) * 16 + (sid % 8)

\* the header byte: cmd_type << 6 | trans_type << 4 | (sid & 0x0F)
Header(m, sid) == cmd_type(m) * 64 + trans_type(m) * 16 + (sid % 16)

\* the sid the frame carries: sid_override, or self.sid when sid_override == 0
WireSid(m, sid_override) == IF sid_override = 0 THEN m.sid ELSE sid_override

\* a body whose length field leaves out the header byte
Body_short_len(m, sid_override) ==
    LET payload == IF trans_type(m) = TransType.Ack THEN <<>>
                   ELSE ToBE16(oid(m)) \o export_payload(m)
    IN  <<Header(m, WireSid(m, sid_override))>> \o ToBE16(Len(payload) + 4) \o payload

\* buf before the CRC is appended: header, length, [oid, payload]
Body(m, sid_override) ==
    LET payload == IF trans_type(m) = TransType.Ack THEN <<>>
                   ELSE ToBE16(oid(m)) \o export_payload(m)
    IN  <<Header(m, WireSid(m, sid_override))>> \o ToBE16(Len(payload) + 5) \o payload

to_bytes(m, sid_override) ==
    LET buf == Body(m, sid_override)
    IN  <<START>> \o escape(buf \o ToBE16(crc_hqx(buf, CRC_INIT))) \o <<END>>

DecodeError(e) == [err |-> e, msg |-> NoMessage]

\* from_bytes after the CRC check: data is the unescaped body
Decode(data) ==
    IF ~(Len(data) >= 5) THEN DecodeError("length")
    ELSE IF FromBE(Slice(data, 2, 3)) # Len(data) THEN DecodeError("length")
    ELSE IF data[1] \div 64 \notin Values(CmdType) THEN DecodeError("enum")
    ELSE IF (data[1] \div 16) % 4 \notin Values(TransType) THEN DecodeError("enum")
    ELSE LET cmd == data[1] \div 64
             trans == (data[1] \div 16) % 4
             sid == data[1] % 16
         IN
         IF trans = TransType.Ack /\ Len(data) # 5 THEN DecodeError("length")
         ELSE IF trans # TransType.Ack /\ ~(Len(data) >= 7) THEN DecodeError("length")
         ELSE IF trans # TransType.Ack /\ FromBE(Slice(data, 4, 5)) \notin Values(Oid)
              THEN DecodeError("enum")
         ELSE LET o == IF trans = TransType.Ack THEN Oid.Invalid
                       ELSE FromBE(Slice(data, 4, 5))
                  payload == IF trans = TransType.Ack THEN <<>>
                             ELSE Slice(data, 6, Len(data) - 2)
                  key == [cmd |-> cmd, trans |-> trans, oid |-> o]
              IN
              IF key \notin DOMAIN REGISTRY THEN DecodeError("unknown")
              ELSE LET kw == parse_payload(REGISTRY[key], payload) IN
                   IF kw.err # "none" THEN DecodeError(kw.err)
                   ELSE [err |-> "none",
                         msg |-> [cls |-> REGISTRY[key], sid |-> sid, args |-> kw.args]]

\* from_bytes without the CRC comparison
from_bytes_nocrc(data) ==
    IF Len(data) = 0 \/ data[1] # START THEN DecodeError("start")
    ELSE IF data[Len(data)] # END THEN DecodeError("end")
    ELSE LET u == unescape(Slice(data, 2, Len(data) - 1)) IN
         IF u.err # "none" THEN DecodeError(u.err) ELSE Decode(u.val)

from_bytes(data) ==
    IF Len(data) = 0 \/ data[1] # START THEN DecodeError("start")
    ELSE IF data[Len(data)] # END THEN DecodeError("end")
    ELSE LET u == unescape(Slice(data, 2, Len(data) - 1)) IN
         IF u.err # "none" THEN DecodeError(u.err)
         ELSE LET n == Len(u.val)
                  crc == FromBE(Slice(u.val, IF n >= 2 THEN n - 1 ELSE 1, n))
                  crc_calc == crc_hqx(Slice(u.val, 1, n - 2), CRC_INIT)
              IN  IF crc # crc_calc THEN DecodeError("crc") ELSE Decode(u.val)

-----------------------------------------------------------------------------
(* Inputs of the codec: byte strings and messages with valid field values *)

\* bytes around the escape range, an escape argument that is out of range
\* (0 and 4) and ordinary bytes
Alphabet == {0, 1, 3, 4, 124, 125, 126, 127}

RECURSIVE SeqsUpTo(_, _)
SeqsUpTo(S, n) ==
    IF n = 0 THEN {<<>>}
    ELSE LET shorter == SeqsUpTo(S, n - 1)
         IN  shorter \cup {Append(t, x) : t \in {u \in shorter : Len(u) = n - 1}, x \in S}

ByteStrings == SeqsUpTo(Alphabet, MaxLen)

Sids == 0..15

\* Python str values: "", "a", "R.", "}" (0x7D) and "~" (0x7E)
Names == {<<>>, <<97>>, <<82, 46>>, <<125>>, <<126>>}

Msg(cls, sid, args) == [cls |-> cls, sid |-> sid, args |-> args]

CodecMessages ==
    {Msg(c, s, NoArgs) :
        c \in {"GetAck", "PushAck", "GetDeviceInfoRequest", "GetFileStatus",
               "GetFileStatusResponse"}, s \in Sids}
    \cup {Msg("GetFile", s, [filename |-> f]) : s \in Sids, f \in Names}
    \cup {Msg("GetFileResponse", s, [exist |-> e]) : s \in Sids, e \in BOOLEAN}
    \cup {Msg("FileInfo", s, [filename |-> f, size |-> n]) :
            s \in {1, 14}, f \in {<<97>>, <<125>>}, n \in {0, 7, 63, 64, -1}}
    \cup {Msg("ReceiveFile", s, [seq |-> q, flag |-> g, data |-> d]) :
            s \in {0, 13}, q \in {0, 127}, g \in {ReceiveFileFlag.First, ReceiveFileFlag.Single},
            d \in {<<>>, <<124>>, <<125, 1>>, <<127, 126>>}}
    \cup {Msg("GetDeviceInfoResponse", s,
              [dev_type |-> dt, file_trans_size |-> fts, hardware_version |-> hw,
               software_version |-> <<86>>, serial_number |-> <<>>,
               protocol_version |-> <<49, 125>>, ble_mtu |-> mtu]) :
            s \in {0, 15}, dt \in {DevType.DEV_TYPE_HANDWATCH, DevType.DEV_TYPE_BIKE_COMPUTER},
            fts \in {FileTransSize.FILE_TRANS_SIZE_128, FileTransSize.FILE_TRANS_SIZE_512},
            hw \in {<<>>, <<86, 50>>}, mtu \in {23, 200}}

\* data with bit k of byte i inverted
FlipBit(data, i, k) ==
    [data EXCEPT ![i] = IF (data[i] \div Pow2(k)) % 2 = 1 THEN data[i] - Pow2(k)
                        ELSE data[i] + Pow2(k)]

NoBytes == [err |-> "none", val |-> <<>>]
NoDecode == [err |-> "none", msg |-> NoMessage]

-----------------------------------------------------------------------------
(* The codec harness: draw an input, apply the functions of the codec *)

CodecIdle ==
    /\ cx_pc = "idle" /\ cx_in = <<>> /\ cx_msg = NoMessage
    /\ cx_wire = <<>> /\ cx_unesc = NoBytes /\ cx_dec = NoDecode

CodecInit ==
    /\ \/ cx_pc = "bytes" /\ cx_in \in ByteStrings /\ cx_msg = NoMessage
       \/ cx_pc = "message" /\ cx_in = <<>> /\ cx_msg \in CodecMessages
    /\ cx_wire = <<>> /\ cx_unesc = NoBytes /\ cx_dec = NoDecode

\* escape(cx_in)
Escape ==
    /\ cx_pc = "bytes"
    /\ cx_wire' = escape(cx_in)
    /\ cx_pc' = "escaped"
    /\ UNCHANGED <<cx_in, cx_msg, cx_unesc, cx_dec, streamSide>>

\* unescape(escape(cx_in))
Unescape ==
    /\ cx_pc = "escaped"
    /\ cx_unesc' = unescape(cx_wire)
    /\ cx_pc' = "unescaped"
    /\ UNCHANGED <<cx_in, cx_msg, cx_wire, cx_dec, streamSide>>

\* unescape(cx_in), cx_in being any byte string
UnescapeRaw ==
    /\ cx_pc = "bytes"
    /\ cx_unesc' = unescape(cx_in)
    /\ cx_pc' = "unescaped_raw"
    /\ UNCHANGED <<cx_in, cx_msg, cx_wire, cx_dec, streamSide>>

\* cx_msg.to_bytes()
ToBytes ==
    /\ cx_pc = "message"
    /\ cx_wire' = to_bytes(cx_msg, 0)
    /\ cx_pc' = "encoded"
    /\ UNCHANGED <<cx_in, cx_msg, cx_unesc, cx_dec, streamSide>>

\* one bit of one byte between the delimiters is inverted on the way
Corrupt ==
    /\ cx_pc = "encoded"
    /\ \E i \in 2..(Len(cx_wire) - 1), k \in 0..7 :
          cx_wire' = FlipBit(cx_wire, i, k)
    /\ cx_pc' = "corrupted"
    /\ UNCHANGED <<cx_in, cx_msg, cx_unesc, cx_dec, streamSide>>

\* header bytes of frames made by a peer: Get/Default, Get/Response, Get/Ack,
\* Push/Ack, Push/Default and Post/Default, with various sids
ForgedHeaders == {3, 16, 47, 161, 128, 67}

\* what follows the length field: the drawn bytes alone, or an oid (Invalid,
\* GetFileStatus, or a number that is no Oid) and the drawn bytes
ForgedRests(payload) ==
    {payload} \cup {ToBE16(o) \o payload : o \in {Oid.Invalid, Oid.GetFileStatus, 7}}

\* a frame with a correct CRC around any header, length field and rest
ForgedFrame(header, length, rest) ==
    LET buf == <<header>> \o ToBE16(length) \o rest
    IN  <<START>> \o escape(buf \o ToBE16(crc_hqx(buf, CRC_INIT))) \o <<END>>

\* a peer builds a frame of its own around cx_in; its length field is right
\* or off by one
Forge ==
    /\ cx_pc = "bytes"
    /\ Len(cx_in) < MaxLen
    /\ \E header \in ForgedHeaders, rest \in ForgedRests(cx_in), d \in {-1, 0, 1} :
          cx_wire' = ForgedFrame(header, Len(rest) + 5 + d, rest)
    /\ cx_pc' = "forged"
    /\ UNCHANGED <<cx_in, cx_msg, cx_unesc, cx_dec, streamSide>>

\* cx_msg.ack() and its encoding
Ack ==
    /\ cx_pc = "message"
    /\ cx_dec' = ack(cx_msg)
    /\ cx_wire' = IF ack(cx_msg).err = "none" THEN to_bytes(ack(cx_msg).msg, 0) ELSE <<>>
    /\ cx_pc' = "acked"
    /\ UNCHANGED <<cx_in, cx_msg, cx_unesc, streamSide>>

\* Message.from_bytes(cx_wire)
FromBytes ==
    /\ cx_pc \in {"encoded", "corrupted", "forged"}
    /\ cx_dec' = from_bytes(cx_wire)
    /\ cx_pc' = IF cx_pc = "encoded" THEN "decoded" ELSE "decoded_" \o cx_pc
    /\ UNCHANGED <<cx_in, cx_msg, cx_wire, cx_unesc, streamSide>>

-----------------------------------------------------------------------------
(* PacketStream (bb16.py:235-284) with its peer and its transport *)

SEQ_MASK == 15

NoEntry == [m |-> NoMessage, stamp |-> -1]
Outcome(op, err, e) == [op |-> op, err |-> err, m |-> e.m, stamp |-> e.stamp]

\* to_bytes splits as Frame(Body(..)): a frame around any body, with its CRC
Frame(body) == <<START>> \o escape(body \o ToBE16(crc_hqx(body, CRC_INIT))) \o <<END>>

\* what the peer sends as its n-th message: a response, a response with a
\* payload, an ack, in turn
PeerMessage(n, sid) ==
    IF n % 3 = 0 THEN Msg("GetFileStatusResponse", sid, NoArgs)
    ELSE IF n % 3 = 1 THEN Msg("GetFileResponse", sid, [exist |-> TRUE])
    ELSE Msg("PushAck", sid, NoArgs)

\* the peer's encoder is the same wire format
PeerFrame == [n \in 0..2 |-> [sid \in Sids |-> to_bytes(PeerMessage(n, sid), 0)]]

\* the sids of a frame out of sequence: the one after, the one before, the one
\* half a cycle away, and 0
SkewedSids(sid) == {(sid + 1) % 16, (sid + 15) % 16, (sid + 8) % 16, 0} \ {sid}

\* frames the stream must reject, made of the frame in sequence: a flipped
\* bit, a stray byte before the frame, an escape argument out of range, a LEN
\* field that disagrees with the body
CorruptFrames ==
    [n \in 0..2 |-> [sid \in Sids |->
        LET m == PeerMessage(n, sid)
            good == to_bytes(m, 0)
            body == Body(m, 0)
        IN  {FlipBit(good, 5, 0),
             <<0>> \o good,
             <<START, ESC, 0, END>>,
             Frame([body EXCEPT ![3] = body[3] + 1])}]]

\* messages the application writes: with the default sid and with another one
AppMessages ==
    {Msg("GetFileStatus", 0, NoArgs), Msg("GetFile", 5, [filename |-> <<97>>])}

\* sizes of the notifications a frame is cut into (or the whole rest)
ChunkSizes == {1, 3}

StreamInit ==
    /\ seq = 0
    /\ rx_buf = <<>>
    /\ rx_messages = <<>>
    /\ rx_sem = 0
    /\ rd_pc = "idle"
    /\ rd_msg = NoEntry
    /\ air = <<>>
    /\ tx = <<>>
    /\ last = Outcome("init", "none", NoEntry)
    /\ nsent = 0 /\ nrx = 0 /\ ndeq = 0 /\ nret = 0 /\ nack = 0
    /\ lastret = -1
    /\ goodsofar = TRUE
    /\ faulted = FALSE /\ nclear = 0 /\ nafter = 0

\* the peer may start another frame
PeerMaySend ==
    /\ air = <<>>
    /\ nsent < MaxFrames
    /\ Len(rx_messages) < MaxQueue
    /\ (faulted \/ nclear > 0) => nafter < MaxAfter

PeerSent ==
    /\ nsent' = nsent + 1
    /\ nafter' = IF faulted \/ nclear > 0 THEN nafter + 1 ELSE nafter
    /\ tx' = <<>>
    /\ last' = Outcome("peer", "none", NoEntry)

\* the peer starts a well-formed frame that carries the next sid in sequence
PeerSend ==
    /\ PeerMaySend
    /\ air' = PeerFrame[nrx % 3][nrx % 16]
    /\ PeerSent
    /\ UNCHANGED <<codecSide, streamVars, nrx, ndeq, nret, nack, lastret, goodsofar,
                   faulted, nclear>>

\* the peer starts a well-formed frame that carries any other sid
PeerSendSkewed ==
    /\ PeerMaySend
    /\ ~faulted
    /\ \E sid \in SkewedSids(nrx % 16) : air' = PeerFrame[nrx % 3][sid]
    /\ faulted' = TRUE
    /\ PeerSent
    /\ UNCHANGED <<codecSide, streamVars, nrx, ndeq, nret, nack, lastret, goodsofar,
                   nclear>>

\* the peer starts a frame that is not well formed
PeerSendCorrupt ==
    /\ PeerMaySend
    /\ ~faulted
    /\ \E f \in CorruptFrames[nrx % 3][nrx % 16] : air' = f
    /\ faulted' = TRUE
    /\ PeerSent
    /\ UNCHANGED <<codecSide, streamVars, nrx, ndeq, nret, nack, lastret, goodsofar,
                   nclear>>

\* rx_messages.insert(0, message)
Enqueue_front(queue, e) == <<e>> \o queue

\* rx_messages.append(message)
Enqueue(queue, e) == Append(queue, e)

\* an on_notify that keeps the frame in the buffer after enqueuing its message
on_notify_keeps_buffer(data) ==
    LET buf == rx_buf \o data IN
    IF buf[1] # START THEN
        /\ rx_buf' = buf
        /\ last' = Outcome("on_notify", "start", NoEntry)
        /\ UNCHANGED <<rx_messages, rx_sem, nrx>>
    ELSE IF buf[Len(buf)] = END THEN
        LET r == from_bytes(buf) IN
        IF r.err # "none" THEN
            /\ rx_buf' = buf
            /\ last' = Outcome("on_notify", r.err, NoEntry)
            /\ UNCHANGED <<rx_messages, rx_sem, nrx>>
        ELSE
            /\ rx_messages' = Append(rx_messages, [m |-> r.msg, stamp |-> nrx])
            /\ rx_sem' = rx_sem + 1
            /\ rx_buf' = buf
            /\ nrx' = nrx + 1
            /\ last' = Outcome("on_notify", "none", [m |-> r.msg, stamp |-> nrx])
    ELSE
        /\ rx_buf' = buf
        /\ last' = Outcome("on_notify", "partial", NoEntry)
        /\ UNCHANGED <<rx_messages, rx_sem, nrx>>

\* PacketStream.on_notify (bb16.py:244-253); an exception leaves the buffer as
\* the += made it
on_notify(data) ==
    LET buf == rx_buf \o data IN
    IF buf[1] # START THEN
        /\ rx_buf' = buf
        /\ last' = Outcome("on_notify", "start", NoEntry)
        /\ UNCHANGED <<rx_messages, rx_sem, nrx>>
    ELSE IF buf[Len(buf)] = END THEN
        LET r == from_bytes(buf) IN
        IF r.err # "none" THEN
            /\ rx_buf' = buf
            /\ last' = Outcome("on_notify", r.err, NoEntry)
            /\ UNCHANGED <<rx_messages, rx_sem, nrx>>
        ELSE
            /\ rx_messages' = Enqueue(rx_messages, [m |-> r.msg, stamp |-> nrx])
            /\ rx_sem' = rx_sem + 1
            /\ rx_buf' = <<>>
            /\ nrx' = nrx + 1
            /\ last' = Outcome("on_notify", "none", [m |-> r.msg, stamp |-> nrx])
    ELSE
        /\ rx_buf' = buf
        /\ last' = Outcome("on_notify", "partial", NoEntry)
        /\ UNCHANGED <<rx_messages, rx_sem, nrx>>

\* the transport notifies the next bytes of the frame in the air
Notify ==
    /\ air # <<>>
    /\ \E k \in ((IF nsent <= MaxChunked THEN ChunkSizes ELSE {}) \cup {Len(air)}) :
          /\ k <= Len(air)
          /\ on_notify(SubSeq(air, 1, k))
          /\ air' = Slice(air, k + 1, Len(air))
    /\ tx' = <<>>
    /\ UNCHANGED <<codecSide, seq, rd_pc, rd_msg, nsent, ndeq, nret, nack, lastret,
                   goodsofar, faulted, nclear, nafter>>

\* PacketStream.write (bb16.py:267-270): the frame handed to write_gatt_char
WriteFrame(message, s) == to_bytes(message, s)

\* the application calls write(message)
write ==
    /\ rd_pc = "idle"
    /\ \E message \in AppMessages, accepted \in BOOLEAN :
          /\ ~accepted => ~faulted
          /\ faulted' = (faulted \/ ~accepted)
          /\ tx' = IF accepted THEN <<WriteFrame(message, seq)>> ELSE <<>>
          /\ goodsofar' = (goodsofar /\ accepted)
          /\ last' = Outcome("write", IF accepted THEN "none" ELSE "transport",
                             [m |-> message, stamp |-> -1])
    /\ UNCHANGED <<codecSide, streamVars, air, nsent, nrx, ndeq, nret, nack, lastret,
                   nclear, nafter>>

\* a read() without the sid check
SidOk_any(message, s) == TRUE

\* assert message.sid == self.seq (bb16.py:276)
SidOk(message, s) == message.sid = s

\* a counter without the & 0x0F
NextSeq_nowrap(s) == s + 1

\* self.seq = (self.seq + 1) & 0x0F (bb16.py:278)
NextSeq(s) == (s + 1) % (SEQ_MASK + 1)

\* the ack written after the increment of seq
AckFrames_post(message, s) == <<WriteFrame(ack(message).msg, NextSeq(s))>>

\* a read() that returns without acknowledging
AckFrames_none(message, s) == <<>>

\* await self.write(message.ack()) (bb16.py:277): the frames it hands over
AckFrames(message, s) == <<WriteFrame(ack(message).msg, s)>>

\* a timeout that throws the reassembly buffer away
read_timeout_drops_buffer ==
    /\ rd_pc = "idle"
    /\ rx_sem = 0
    /\ tx' = <<>>
    /\ rx_buf' = <<>>
    /\ last' = Outcome("read", "timeout", NoEntry)
    /\ UNCHANGED <<codecSide, seq, rx_messages, rx_sem, rd_pc, rd_msg, air, nsent, nrx,
                   ndeq, nret, nack, lastret, goodsofar, faulted, nclear, nafter>>

\* read(): wait_for(rx_sem.acquire()) expires (bb16.py:274, 280-281)
read_timeout ==
    /\ rd_pc = "idle"
    /\ rx_sem = 0
    /\ tx' = <<>>
    /\ last' = Outcome("read", "timeout", NoEntry)
    /\ UNCHANGED <<codecSide, streamVars, air, nsent, nrx, ndeq, nret, nack, lastret,
                   goodsofar, faulted, nclear, nafter>>

\* a read() that checks the sid of the first message before it pops it
read_pop_checks_first ==
    /\ rd_pc = "idle"
    /\ rx_sem > 0
    /\ rx_sem' = rx_sem - 1
    /\ tx' = <<>>
    /\ IF rx_messages = <<>> THEN
           /\ last' = Outcome("read", "IndexError", NoEntry)
           /\ goodsofar' = FALSE
           /\ UNCHANGED <<rx_messages, rd_pc, rd_msg, ndeq>>
       ELSE LET e == Head(rx_messages) IN
           /\ goodsofar' = (goodsofar /\ e.m.sid = e.stamp % 16)
           /\ IF ~SidOk(e.m, seq) THEN
                  /\ last' = Outcome("read", "sid", e)
                  /\ UNCHANGED <<rx_messages, rd_pc, rd_msg, ndeq>>
              ELSE IF ack(e.m).err # "none" THEN
                  /\ rx_messages' = Tail(rx_messages)
                  /\ ndeq' = ndeq + 1
                  /\ last' = Outcome("read", ack(e.m).err, e)
                  /\ UNCHANGED <<rd_pc, rd_msg>>
              ELSE
                  /\ rx_messages' = Tail(rx_messages)
                  /\ ndeq' = ndeq + 1
                  /\ rd_pc' = "acking"
                  /\ rd_msg' = e
                  /\ last' = Outcome("read", "acking", e)
    /\ UNCHANGED <<codecSide, seq, rx_buf, air, nsent, nrx, nret, nack, lastret,
                   faulted, nclear, nafter>>

\* read(): acquire, pop(0) and the sid check (bb16.py:274-276)
read_pop ==
    /\ rd_pc = "idle"
    /\ rx_sem > 0
    /\ rx_sem' = rx_sem - 1
    /\ tx' = <<>>
    /\ IF rx_messages = <<>> THEN
           /\ last' = Outcome("read", "IndexError", NoEntry)
           /\ goodsofar' = FALSE
           /\ UNCHANGED <<rx_messages, rd_pc, rd_msg, ndeq>>
       ELSE LET e == Head(rx_messages) IN
           /\ rx_messages' = Tail(rx_messages)
           /\ ndeq' = ndeq + 1
           /\ goodsofar' = (goodsofar /\ e.m.sid = e.stamp % 16)
           /\ IF ~SidOk(e.m, seq) THEN
                  /\ last' = Outcome("read", "sid", e)
                  /\ UNCHANGED <<rd_pc, rd_msg>>
              ELSE IF ack(e.m).err # "none" THEN
                  /\ last' = Outcome("read", ack(e.m).err, e)
                  /\ UNCHANGED <<rd_pc, rd_msg>>
              ELSE
                  /\ rd_pc' = "acking"
                  /\ rd_msg' = e
                  /\ last' = Outcome("read", "acking", e)
    /\ UNCHANGED <<codecSide, seq, rx_buf, air, nsent, nrx, nret, nack, lastret,
                   faulted, nclear, nafter>>

\* read(): the ack write completes, seq advances, the message is returned
\* (bb16.py:277-279); a rejected write raises out of read()
read_ack ==
    /\ rd_pc = "acking"
    /\ \E accepted \in BOOLEAN :
          /\ ~accepted => ~faulted
          /\ faulted' = (faulted \/ ~accepted)
          /\ IF accepted THEN
                 /\ tx' = AckFrames(rd_msg.m, seq)
                 /\ nack' = nack + Len(tx')
                 /\ seq' = NextSeq(seq)
                 /\ nret' = nret + 1
                 /\ lastret' = rd_msg.stamp
                 /\ last' = Outcome("read", "none", rd_msg)
                 /\ UNCHANGED goodsofar
             ELSE
                 /\ tx' = <<>>
                 /\ goodsofar' = FALSE
                 /\ last' = Outcome("read", "transport", rd_msg)
                 /\ UNCHANGED <<seq, nack, nret, lastret>>
    /\ rd_pc' = "idle"
    /\ rd_msg' = NoEntry
    /\ UNCHANGED <<codecSide, rx_buf, rx_messages, rx_sem, air, nsent, nrx, ndeq,
                   nclear, nafter>>

\* a clear() that leaves the queue as it is
clear_keeps_queue ==
    /\ nclear < MaxClear
    /\ rx_buf' = <<>>
    /\ rx_sem' = 0
    /\ nclear' = nclear + 1
    /\ goodsofar' = FALSE
    /\ tx' = <<>>
    /\ last' = Outcome("clear", "none", NoEntry)
    /\ UNCHANGED <<codecSide, seq, rx_messages, rd_pc, rd_msg, air, nsent, nrx, ndeq, nret,
                   nack, lastret, faulted, nafter>>

\* a clear() that keeps the semaphore
clear_keeps_readiness ==
    /\ nclear < MaxClear
    /\ rx_buf' = <<>>
    /\ rx_messages' = <<>>
    /\ nclear' = nclear + 1
    /\ goodsofar' = FALSE
    /\ tx' = <<>>
    /\ last' = Outcome("clear", "none", NoEntry)
    /\ UNCHANGED <<codecSide, seq, rx_sem, rd_pc, rd_msg, air, nsent, nrx, ndeq, nret,
                   nack, lastret, faulted, nafter>>

\* PacketStream.clear (bb16.py:255-258); it does not await, so that it may run
\* at any await of a read(), the ack write included
clear ==
    /\ nclear < MaxClear
    /\ rx_buf' = <<>>
    /\ rx_messages' = <<>>
    /\ rx_sem' = 0
    /\ nclear' = nclear + 1
    /\ goodsofar' = FALSE
    /\ tx' = <<>>
    /\ last' = Outcome("clear", "none", NoEntry)
    /\ UNCHANGED <<codecSide, seq, rd_pc, rd_msg, air, nsent, nrx, ndeq, nret, nack,
                   lastret, faulted, nafter>>

-----------------------------------------------------------------------------
(* BB16.download_file (bb16.py:457-484) over get_stream and push_stream.    *)
(* The two streams are taken at the level of decoded messages: rx_messages  *)
(* holds what on_notify has decoded, read() is PacketStream.read as above.  *)

NoFile == <<-1>>
NoResult == [kind |-> "none", data |-> <<>>, err |-> "none"]
Returned(data) == [kind |-> "data", data |-> data, err |-> "none"]
Absent == [kind |-> "absent", data |-> <<>>, err |-> "none"]
Raised(e) == [kind |-> "error", data |-> <<>>, err |-> e]

\* file names: the one requested ("a") and another one ("b")
RequestNames == {<<97>>}
DiskNames == {<<97>>, <<98>>}
\* contents a file of save_dir may hold before the download
OldContents == {NoFile, <<120>>}
\* data of one fragment
FragData == {<<97>>, <<98, 99>>}
FinalFlags == {ReceiveFileFlag.Last, ReceiveFileFlag.Single}

\* a write that leaves the sid of the message as it is
WireMsg_own_sid(m, s) == m

\* the message as to_bytes(sid_override = s) puts it on the wire
WireMsg(m, s) == [m EXCEPT !.sid = WireSid(m, s) % 16]

\* PacketStream.read (bb16.py:272-281) on a stream with queue q and seq s; the
\* transport accepts the ack write or rejects it
StreamRead(q, s, accepted) ==
    IF q = <<>> THEN
        [err |-> "timeout", msg |-> NoMessage, q |-> q, seq |-> s, acks |-> <<>>]
    ELSE IF ~SidOk(Head(q), s) THEN
        [err |-> "sid", msg |-> NoMessage, q |-> Tail(q), seq |-> s, acks |-> <<>>]
    ELSE IF ack(Head(q)).err # "none" THEN
        [err |-> ack(Head(q)).err, msg |-> NoMessage, q |-> Tail(q), seq |-> s,
         acks |-> <<>>]
    ELSE IF ~accepted THEN
        [err |-> "transport", msg |-> NoMessage, q |-> Tail(q), seq |-> s, acks |-> <<>>]
    ELSE
        [err |-> "none", msg |-> Head(q), q |-> Tail(q), seq |-> NextSeq(s),
         acks |-> <<WireMsg(ack(Head(q)).msg, s)>>]

\* what the device may answer on GET to a request with sid s: the response
\* with either value of exist, the response out of sequence, another message
GetReplies(s) ==
    {Msg("GetFileResponse", s, [exist |-> e]) : e \in BOOLEAN}
    \cup {Msg("GetFileResponse", (s + 1) % 16, [exist |-> TRUE]),
          Msg("GetFileStatusResponse", s, NoArgs)}

\* what the device may push as its n-th message: a FileInfo of any name and
\* size (later on, one stray FileInfo), a fragment with any flag, or a fragment
\* out of sequence
PushMessages(n) ==
    {Msg("FileInfo", n % 16, [filename |-> f, size |-> z]) :
        f \in (IF n = 0 THEN DiskNames ELSE {<<97>>}),
        z \in (IF n = 0 THEN 0..MaxSize ELSE {0})}
    \cup {Msg("ReceiveFile", n % 16, [seq |-> n, flag |-> g, data |-> d]) :
            g \in Values(ReceiveFileFlag), d \in FragData}
    \cup {Msg("ReceiveFile", (n + 1) % 16,
              [seq |-> n, flag |-> ReceiveFileFlag.First, data |-> <<97>>])}

\* a download that goes on whatever exist says
RespOutcome_ignore_exist(resp) ==
    IF resp.cls # "GetFileResponse" THEN "AttributeError" ELSE "proceed"

\* if not resp.exist: return None (bb16.py:463-465); a message without the
\* attribute exist raises AttributeError
RespOutcome(resp) ==
    IF resp.cls # "GetFileResponse" THEN "AttributeError"
    ELSE IF ~resp.args.exist THEN "absent"
    ELSE "proceed"

\* the fragment put in front of the data
Extend_front(fileData, frag) == frag.args.data \o fileData

\* fileData.extend(frag.data) (bb16.py:473)
Extend(fileData, frag) == fileData \o frag.args.data

\* a loop that ends after any fragment
LoopEnds_always(frag) == TRUE

\* if frag.flag in (ReceiveFileFlag.Last, ReceiveFileFlag.Single): break
\* (bb16.py:475-476)
LoopEnds(frag) == frag.args.flag \in FinalFlags

\* if save_dir: open(os.path.join(save_dir, filename), "wb").write(fileData)
\* (bb16.py:478-482)
SaveFile(fs, save, filename, fileData) ==
    IF save THEN [fs EXCEPT ![filename] = fileData] ELSE fs

\* no download_file call has been made
DownloadIdle ==
    /\ dl_pc = "ready" /\ dl_filename = <<>> /\ dl_save = FALSE
    /\ get_seq = 0 /\ get_q = <<>> /\ push_seq = 0 /\ push_q = <<>>
    /\ dl_info = NoMessage /\ dl_data = <<>> /\ dl_result = NoResult
    /\ files = [n \in DiskNames |-> NoFile]
    /\ get_sent = 0 /\ push_sent = 0 /\ get_tx = <<>> /\ push_tx = <<>>
    /\ dl_frags = <<>> /\ dl_reads = 0

\* a connected BB16 before download_file: GET has read no message or the two
\* of sync's handshake, save_dir holds an older file of the requested name or
\* none
DownloadInit ==
    /\ dl_pc = "ready" /\ dl_filename = <<>> /\ dl_save = FALSE
    /\ get_seq \in {0, 2} /\ get_q = <<>> /\ push_seq = 0 /\ push_q = <<>>
    /\ dl_info = NoMessage /\ dl_data = <<>> /\ dl_result = NoResult
    /\ files \in {f \in [DiskNames -> OldContents] : f[<<98>>] = NoFile}
    /\ get_sent = 0 /\ push_sent = 0 /\ get_tx = <<>> /\ push_tx = <<>>
    /\ dl_frags = <<>> /\ dl_reads = 0

dlDevice == <<get_sent, push_sent>>
dlLocals == <<dl_info, dl_data, dl_frags>>

\* the device answers on GET
DevGet ==
    /\ dl_pc = "await_resp"
    /\ get_sent = 0
    /\ \E m \in GetReplies(get_seq) : get_q' = Append(get_q, m)
    /\ get_sent' = get_sent + 1
    /\ UNCHANGED <<cmVars, codecVars, streamVars, envVars, histVars, syVars>>
    /\ UNCHANGED <<dl_pc, dl_filename, dl_save, get_seq, push_seq, push_q, dl_info,
                   dl_data, dl_result, files, push_sent, get_tx, push_tx, dl_frags,
                   dl_reads>>

\* the device pushes its next message
DevPush ==
    /\ dl_pc \in {"await_resp", "await_info", "await_frag"}
    /\ push_sent < MaxPush
    /\ Len(push_q) < MaxQueue
    /\ \E m \in PushMessages(push_sent) : push_q' = Append(push_q, m)
    /\ push_sent' = push_sent + 1
    /\ UNCHANGED <<cmVars, codecVars, streamVars, envVars, histVars, syVars>>
    /\ UNCHANGED <<dl_pc, dl_filename, dl_save, get_seq, get_q, push_seq, dl_info,
                   dl_data, dl_result, files, get_sent, get_tx, push_tx, dl_frags,
                   dl_reads>>

\* download_file(filename, save_dir): get_stream.write(GetFile(filename=filename))
\* (bb16.py:457-459)
download_file ==
    /\ dl_pc = "ready"
    /\ \E filename \in RequestNames, save \in BOOLEAN, accepted \in BOOLEAN :
          /\ dl_filename' = filename
          /\ dl_save' = save
          /\ IF accepted THEN
                 /\ get_tx' = Append(get_tx,
                        WireMsg(Msg("GetFile", 0, [filename |-> filename]), get_seq))
                 /\ dl_pc' = "await_resp"
                 /\ UNCHANGED dl_result
             ELSE
                 /\ dl_pc' = "raised"
                 /\ dl_result' = Raised("transport")
                 /\ UNCHANGED get_tx
    /\ UNCHANGED <<cmVars, codecVars, streamVars, envVars, histVars, syVars>>
    /\ UNCHANGED <<get_seq, get_q, push_seq, push_q, files, dlDevice, push_tx,
                   dlLocals, dl_reads>>

\* resp = await self.get_stream.read(); if not resp.exist: return None
\* (bb16.py:461-465)
download_file_resp ==
    /\ dl_pc = "await_resp"
    /\ \E accepted \in BOOLEAN :
          LET r == StreamRead(get_q, get_seq, accepted) IN
          /\ get_q' = r.q
          /\ get_seq' = r.seq
          /\ get_tx' = get_tx \o r.acks
          /\ IF r.err # "none" THEN
                 dl_pc' = "raised" /\ dl_result' = Raised(r.err)
             ELSE IF RespOutcome(r.msg) = "AttributeError" THEN
                 dl_pc' = "raised" /\ dl_result' = Raised("AttributeError")
             ELSE IF RespOutcome(r.msg) = "absent" THEN
                 dl_pc' = "returned" /\ dl_result' = Absent
             ELSE
                 dl_pc' = "await_info" /\ UNCHANGED dl_result
    /\ UNCHANGED <<cmVars, codecVars, streamVars, envVars, histVars, syVars>>
    /\ UNCHANGED <<dl_filename, dl_save, push_seq, push_q, files, dlDevice, push_tx,
                   dlLocals, dl_reads>>

\* fileInfo = await self.push_stream.read() (bb16.py:467-470)
download_file_info ==
    /\ dl_pc = "await_info"
    /\ \E accepted \in BOOLEAN :
          LET r == StreamRead(push_q, push_seq, accepted) IN
          /\ push_q' = r.q
          /\ push_seq' = r.seq
          /\ push_tx' = push_tx \o r.acks
          /\ IF r.err # "none" THEN
                 dl_pc' = "raised" /\ dl_result' = Raised(r.err) /\ UNCHANGED dl_info
             ELSE
                 dl_pc' = "await_frag" /\ dl_info' = r.msg /\ UNCHANGED dl_result
    /\ dl_reads' = dl_reads + 1
    /\ UNCHANGED <<cmVars, codecVars, streamVars, envVars, histVars, syVars>>
    /\ UNCHANGED <<dl_filename, dl_save, get_seq, get_q, files, dlDevice, get_tx,
                   dl_data, dl_frags>>

\* one turn of the loop, and what follows it when the loop ends
\* (bb16.py:471-484): read a fragment, extend fileData, log the progress
\* (which evaluates fileInfo.size), break on Last or Single, write the file
\* when save_dir was given, return the data
download_file_frag ==
    /\ dl_pc = "await_frag"
    /\ \E accepted \in BOOLEAN :
          LET r == StreamRead(push_q, push_seq, accepted) IN
          /\ push_q' = r.q
          /\ push_seq' = r.seq
          /\ push_tx' = push_tx \o r.acks
          /\ IF r.err # "none" THEN
                 /\ dl_pc' = "raised" /\ dl_result' = Raised(r.err)
                 /\ UNCHANGED <<dl_data, dl_frags, files>>
             ELSE IF r.msg.cls # "ReceiveFile" THEN
                 /\ dl_pc' = "raised" /\ dl_result' = Raised("AttributeError")
                 /\ UNCHANGED <<dl_data, dl_frags, files>>
             ELSE
                 /\ dl_data' = Extend(dl_data, r.msg)
                 /\ dl_frags' = Append(dl_frags,
                        [data |-> r.msg.args.data, final |-> r.msg.args.flag \in FinalFlags])
                 /\ IF dl_info.cls # "FileInfo" THEN
                        /\ dl_pc' = "raised" /\ dl_result' = Raised("AttributeError")
                        /\ UNCHANGED files
                    ELSE IF LoopEnds(r.msg) THEN
                        /\ files' = SaveFile(files, dl_save, dl_filename, dl_data')
                        /\ dl_pc' = "returned" /\ dl_result' = Returned(dl_data')
                    ELSE
                        UNCHANGED <<dl_pc, dl_result, files>>
    /\ dl_reads' = dl_reads + 1
    /\ UNCHANGED <<cmVars, codecVars, streamVars, envVars, histVars, syVars>>
    /\ UNCHANGED <<dl_filename, dl_save, get_seq, get_q, dlDevice, get_tx, dl_info>>

-----------------------------------------------------------------------------
(* One session: _run (bb16.py:527-532) enters BB16 (connect), runs sync and *)
(* leaves it (disconnect). sync (507-525) is the handshake, download_records *)
(* (490-505) and download_files (486-488); each download is download_file as *)
(* above, called with save_dir = data_dir.                                   *)

\* s.strip(): the white space (tab to carriage return, the separators 28 to
\* 31, the space) is removed from both ends
RECURSIVE strip(_)
strip(s) ==
    IF s = <<>> THEN s
    ELSE IF Head(s) \in {9, 10, 11, 12, 13, 28, 29, 30, 31, 32} THEN strip(Tail(s))
    ELSE IF s[Len(s)] \in {9, 10, 11, 12, 13, 28, 29, 30, 31, 32}
      THEN strip(SubSeq(s, 1, Len(s) - 1))
    ELSE s

\* s.split(sep) for a separator of one character: every occurrence separates,
\* so that n occurrences give n + 1 pieces, empty ones included ("\n" is 10)
RECURSIVE split(_, _)
split(s, sep) ==
    IF \A k \in 1..Len(s) : s[k] # sep THEN <<s>>
    ELSE LET k == CHOOSE j \in 1..Len(s) : s[j] = sep /\ \A h \in 1..(j - 1) : s[h] # sep
         IN  <<SubSeq(s, 1, k - 1)>> \o split(SubSeq(s, k + 1, Len(s)), sep)

\* the value of decimal digits ("0" is 48), underscores (95) left out
RECURSIVE DecimalValue(_)
DecimalValue(s) ==
    IF s = <<>> THEN 0
    ELSE IF s[Len(s)] = 95 THEN DecimalValue(SubSeq(s, 1, Len(s) - 1))
    ELSE 10 * DecimalValue(SubSeq(s, 1, Len(s) - 1)) + (s[Len(s)] - 48)

\* int(s): white space around, a sign ("+" is 43, "-" is 45), decimal digits
\* (48 to 57) with single underscores (95) between them; anything else is a
\* ValueError
int(s) ==
    LET t == strip(s)
        signed == t # <<>> /\ Head(t) \in {43, 45}
        d == IF signed THEN Tail(t) ELSE t
        wellFormed ==
            /\ d # <<>>
            /\ \A k \in 1..Len(d) : d[k] \in 48..57 \cup {95}
            /\ d[1] \in 48..57 /\ d[Len(d)] \in 48..57
            /\ \A k \in 1..(Len(d) - 1) : ~(d[k] = 95 /\ d[k + 1] = 95)
    IN  IF ~wellFormed THEN [err |-> "ValueError", val |-> 0]
        ELSE [err |-> "none",
              val |-> IF signed /\ Head(t) = 45 THEN 0 - DecimalValue(d) ELSE DecimalValue(d)]

\* data.decode(): the file lists drawn are ASCII, where the code points are
\* the bytes; a byte above 127 starts a multi-byte sequence, which is not drawn
decode(data) ==
    IF \A k \in 1..Len(data) : data[k] < 128 THEN [err |-> "none", val |-> data]
    ELSE [err |-> "UnicodeDecodeError", val |-> <<>>]

\* name, size_str = line.strip().split(" "); size = int(size_str)
\* (bb16.py:494-495), " " being 32: unpacking anything but two pieces is a
\* ValueError
ParseLine(line) ==
    LET parts == split(strip(line), 32)
    IN  IF Len(parts) # 2 THEN [err |-> "ValueError", name |-> <<>>, size |-> 0]
        ELSE [err |-> int(parts[2]).err, name |-> parts[1], size |-> int(parts[2]).val]

\* a file counts as present when the name exists, whatever its size
AlreadyPresent_any_size(fs, name, size) == name \in DOMAIN fs /\ fs[name] # NoFile

\* os.path.exists(local_name) and os.path.getsize(local_name) == size
\* (bb16.py:497-498)
AlreadyPresent(fs, name, size) ==
    /\ name \in DOMAIN fs
    /\ fs[name] # NoFile
    /\ Len(fs[name]) = size

\* the loop of download_records from line i on (bb16.py:493-502), up to its
\* next await: lines whose file is already present are passed over; the loop
\* stops at a line that does not parse ("error"), at a line whose file is to be
\* downloaded ("download"), or at the end of the lines ("done"); passed lists
\* the lines gone through: name, size, the size of the file of that name in
\* save_dir (-1 without one), whether download_file is called for it
RECURSIVE NextListing(_, _, _)
NextListing(lines, i, fs) ==
    IF i > Len(lines) THEN
        [kind |-> "done", err |-> "none", i |-> i, name |-> <<>>, passed |-> <<>>]
    ELSE
        LET p == ParseLine(lines[i])
            entry(sent) == [name |-> p.name, size |-> p.size,
                            ondisk |-> IF p.name \notin DOMAIN fs \/ fs[p.name] = NoFile
                                         THEN -1 ELSE Len(fs[p.name]),
                            sent |-> sent]
        IN  IF p.err # "none" THEN
                [kind |-> "error", err |-> p.err, i |-> i, name |-> <<>>, passed |-> <<>>]
            ELSE IF AlreadyPresent(fs, p.name, p.size) THEN
                LET r == NextListing(lines, i + 1, fs)
                IN  [r EXCEPT !.passed = <<entry(FALSE)>> \o @]
            ELSE
                [kind |-> "download", err |-> "none", i |-> i, name |-> p.name,
                 passed |-> <<entry(TRUE)>>]

\* the auxiliary files with the first two exchanged
AuxFiles_exchanged ==
    <<<<100, 101, 98, 117, 103, 95, 105, 110, 102, 111, 46, 116, 120, 116>>,
      <<83, 101, 116, 116, 105, 110, 103, 46, 106, 115, 111, 110>>,
      <<83, 101, 110, 115, 111, 114, 68, 101, 118, 105, 99, 101, 46, 116, 120, 116>>,
      <<83, 101, 110, 115, 111, 114, 83, 101, 97, 114, 99, 104, 46, 116, 120, 116>>>>

FILELIST == <<102, 105, 108, 101, 108, 105, 115, 116, 46, 116, 120, 116>>
\* the auxiliary files sync asks for (bb16.py:519-522): Setting.json,
\* debug_info.txt, SensorDevice.txt, SensorSearch.txt
AuxFiles ==
    <<<<83, 101, 116, 116, 105, 110, 103, 46, 106, 115, 111, 110>>,
      <<100, 101, 98, 117, 103, 95, 105, 110, 102, 111, 46, 116, 120, 116>>,
      <<83, 101, 110, 115, 111, 114, 68, 101, 118, 105, 99, 101, 46, 116, 120, 116>>,
      <<83, 101, 110, 115, 111, 114, 83, 101, 97, 114, 99, 104, 46, 116, 120, 116>>>>

\* the characteristics in the order connect() creates their streams
\* (bb16.py:440-442) and in the order disconnect() closes them (445-447)
OpenOrder == <<"GET", "PUSH", "POST">>
CloseOrder == <<"GET", "PUSH", "POST">>

\* contents of the device's filelist.txt: "a 1", "a 1\nb 2", "b 2\na 1",
\* "\na 1\n", "a 1\n\nb 2", and the empty file
FileLists ==
    {<<97, 32, 49>>,
     <<97, 32, 49, 10, 98, 32, 50>>,
     <<98, 32, 50, 10, 97, 32, 49>>,
     <<10, 97, 32, 49, 10>>,
     <<97, 32, 49, 10, 10, 98, 32, 50>>,
     <<>>}

\* what the device holds under a name: "a" has one byte, "b" two
DeviceFile(name, list) ==
    IF name = FILELIST THEN list
    ELSE IF name = <<97>> THEN <<120>>
    ELSE IF name = <<98>> THEN <<121, 121>>
    ELSE <<115>>

\* save_dir before the session, over the names it may come to hold
\* (filelist.txt, the records "a" and "b", the auxiliary files): "a" missing,
\* of the listed size or of another size; "b" missing or of the listed size
SyncDisks ==
    {[n \in {FILELIST, <<97>>, <<98>>} \cup {AuxFiles[k] : k \in 1..Len(AuxFiles)} |->
        IF n = <<97>> THEN a ELSE IF n = <<98>> THEN b ELSE NoFile] :
        a \in {NoFile, <<120>>, <<122, 122>>}, b \in {NoFile, <<121, 121>>}}

\* what sync returned (kind "list") or raised (kind "error", at the place at),
\* kind "none" while it runs
SyncResult(kind, val, err, at) == [kind |-> kind, val |-> val, err |-> err, at |-> at]

\* no session is run
SyncIdle ==
    /\ sy_pc = "idle" /\ sy_connected = FALSE /\ sy_subs = <<>> /\ sy_unsubs = <<>>
    /\ sy_devInfo = NoMessage /\ sy_fileStatus = NoMessage
    /\ sy_lines = <<>> /\ sy_i = 0 /\ sy_filenames = <<>>
    /\ sy_result = SyncResult("none", <<>>, "none", "none") /\ sy_end = "none"
    /\ dv_pc = "idle" /\ dv_list = <<>> /\ dv_hs = <<>>
    /\ sy_seen = <<>> /\ sy_got = <<>>

\* the devices and save_dirs a session is run with: a device that answers the
\* handshake with the two responses asked for, with any file list and save_dir;
\* a device that answers a step with a response of another class, with the
\* file list "a 1" and an empty save_dir
Scenarios ==
    {[hs |-> <<"GetDeviceInfoResponse", "GetFileStatusResponse">>, list |-> l, disk |-> d] :
        l \in FileLists, d \in SyncDisks}
    \cup {[hs |-> h, list |-> <<97, 32, 49>>,
           disk |-> CHOOSE d \in SyncDisks : \A n \in DOMAIN d : d[n] = NoFile] :
            h \in {<<"GetFileStatusResponse", "GetFileStatusResponse">>,
                   <<"GetDeviceInfoResponse", "GetFileResponse">>,
                   <<"GetFileStatusResponse", "GetFileResponse">>}}

\* _run has made the BB16 object (bb16.py:432-435, 530) and is about to enter
\* it; the device holds some file list, save_dir some older files
SyncInit ==
    /\ sy_pc = "start" /\ sy_connected = FALSE /\ sy_subs = <<>> /\ sy_unsubs = <<>>
    /\ sy_devInfo = NoMessage /\ sy_fileStatus = NoMessage
    /\ sy_lines = <<>> /\ sy_i = 0 /\ sy_filenames = <<>>
    /\ sy_result = SyncResult("none", <<>>, "none", "none") /\ sy_end = "none"
    /\ dv_pc = "idle" /\ sy_seen = <<>> /\ sy_got = <<>>
    /\ \E sc \in Scenarios : dv_hs = sc.hs /\ dv_list = sc.list /\ files = sc.disk
    /\ dl_pc = "ready" /\ dl_filename = <<>> /\ dl_save = FALSE
    /\ get_seq = 0 /\ get_q = <<>> /\ push_seq = 0 /\ push_q = <<>>
    /\ dl_info = NoMessage /\ dl_data = <<>> /\ dl_result = NoResult
    /\ get_sent = 0 /\ push_sent = 0 /\ get_tx = <<>> /\ push_tx = <<>>
    /\ dl_frags = <<>> /\ dl_reads = 0

syConn == <<sy_connected, sy_subs, sy_unsubs, sy_end>>
syLocals == <<sy_devInfo, sy_fileStatus, sy_lines, sy_i, sy_filenames, sy_seen, sy_got>>
dlCall == <<dl_pc, dl_filename, dl_save, dl_info, dl_data, dl_result, dl_frags, dl_reads>>

\* a response of the class cls with sid s, as the device may send it in the
\* handshake
HandshakeReply(cls, s) ==
    IF cls = "GetDeviceInfoResponse" THEN
        Msg(cls, s,
            [dev_type |-> DevType.DEV_TYPE_BIKE_COMPUTER,
             file_trans_size |-> FileTransSize.FILE_TRANS_SIZE_512,
             hardware_version |-> <<86, 50>>, software_version |-> <<86>>,
             serial_number |-> <<>>, protocol_version |-> <<49>>, ble_mtu |-> 200])
    ELSE IF cls = "GetFileResponse" THEN Msg(cls, s, [exist |-> TRUE])
    ELSE Msg(cls, s, NoArgs)

\* the device answers a request of the handshake, the last message written on
\* GET, with the sid of the request
DevHandshake ==
    /\ sy_pc \in {"hs1", "hs2"}
    /\ dv_pc = "request"
    /\ get_q' = Append(get_q, HandshakeReply(dv_hs[IF sy_pc = "hs1" THEN 1 ELSE 2],
                                              get_tx[Len(get_tx)].sid))
    /\ get_sent' = get_sent + 1
    /\ dv_pc' = "idle"
    /\ UNCHANGED <<cmVars, codecVars, streamVars, envVars, histVars>>
    /\ UNCHANGED <<dlCall, files, get_seq, push_seq, push_q, push_sent, get_tx, push_tx>>
    /\ UNCHANGED <<sy_pc, syConn, syLocals, sy_result, dv_list, dv_hs>>

\* the device answers a GetFile: it has the file and will push it, or not
DevFile ==
    /\ sy_pc \in {"filelist", "records", "aux"}
    /\ dl_pc = "await_resp"
    /\ dv_pc = "request"
    /\ \E e \in BOOLEAN :
          /\ get_q' = Append(get_q, Msg("GetFileResponse", get_tx[Len(get_tx)].sid,
                                           [exist |-> e]))
          /\ dv_pc' = IF e THEN "info" ELSE "idle"
    /\ get_sent' = get_sent + 1
    /\ UNCHANGED <<cmVars, codecVars, streamVars, envVars, histVars>>
    /\ UNCHANGED <<dlCall, files, get_seq, push_seq, push_q, push_sent, get_tx, push_tx>>
    /\ UNCHANGED <<sy_pc, syConn, syLocals, sy_result, dv_list, dv_hs>>

\* the device pushes the file asked for: its FileInfo, then its content as a
\* Single fragment
DevSend ==
    /\ dl_pc \in {"await_resp", "await_info", "await_frag"}
    /\ dv_pc \in {"info", "frag"}
    /\ Len(push_q) < MaxQueue
    /\ LET data == DeviceFile(dl_filename, dv_list)
           m == IF dv_pc = "info"
                  THEN Msg("FileInfo", push_sent % 16,
                           [filename |-> dl_filename, size |-> Len(data)])
                  ELSE Msg("ReceiveFile", push_sent % 16,
                           [seq |-> 0, flag |-> ReceiveFileFlag.Single, data |-> data])
       IN  push_q' = Append(push_q, m)
    /\ push_sent' = push_sent + 1
    /\ dv_pc' = IF dv_pc = "info" THEN "frag" ELSE "idle"
    /\ UNCHANGED <<cmVars, codecVars, streamVars, envVars, histVars>>
    /\ UNCHANGED <<dlCall, files, get_seq, get_q, push_seq, get_sent, get_tx, push_tx>>
    /\ UNCHANGED <<sy_pc, syConn, syLocals, sy_result, dv_list, dv_hs>>

\* await self.download_file(name, save_dir=save_dir): a new call, whose first
\* step is get_stream.write(GetFile(filename=name)) (bb16.py:457-459); pc is
\* where the caller waits for it
Call(name, pc, txNow, seqNow, accepted) ==
    /\ dl_filename' = name /\ dl_save' = TRUE
    /\ dl_info' = NoMessage /\ dl_data' = <<>> /\ dl_frags' = <<>> /\ dl_reads' = 0
    /\ dl_pc' = IF accepted THEN "await_resp" ELSE "raised"
    /\ dl_result' = IF accepted THEN NoResult ELSE Raised("transport")
    /\ get_tx' = IF accepted
                   THEN Append(txNow, WireMsg(Msg("GetFile", 0, [filename |-> name]), seqNow))
                   ELSE txNow
    /\ dv_pc' = IF accepted THEN "request" ELSE dv_pc
    /\ sy_pc' = pc
    /\ UNCHANGED sy_result

\* an exception leaves sync: the async with of _run calls __aexit__ next
Raise(e, txNow) ==
    /\ sy_result' = SyncResult("error", <<>>, e, sy_pc)
    /\ sy_pc' = "closing"
    /\ get_tx' = txNow
    /\ UNCHANGED <<dlCall, dv_pc>>

\* the loop of download_records goes on from line i of lines; when the lines
\* are used up download_records returns and sync calls download_files, whose
\* first download is that of AuxFiles[1] (bb16.py:493-505, 516-517, 486-488)
Loop(lines, i) ==
    LET n == NextListing(lines, i, files)
    IN  /\ sy_seen' = sy_seen \o n.passed
        /\ sy_i' = IF n.kind = "done" THEN 1 ELSE n.i
        /\ \E accepted \in BOOLEAN :
              IF n.kind = "error" THEN Raise(n.err, get_tx)
              ELSE IF n.kind = "download"
                THEN Call(n.name, "records", get_tx, get_seq, accepted)
              ELSE Call(AuxFiles[1], "aux", get_tx, get_seq, accepted)

\* self.client = BleakClient(address); await self.client.connect(timeout=20.0)
\* (bb16.py:438-439), reached from _run through __aenter__ (450-451, 530);
\* an exception leaves _run without __aexit__
connect_client ==
    /\ sy_pc = "start"
    /\ \E ok \in BOOLEAN :
          IF ok THEN sy_connected' = TRUE /\ sy_pc' = "open" /\ UNCHANGED sy_end
          ELSE sy_pc' = "ended" /\ sy_end' = "connect" /\ UNCHANGED sy_connected
    /\ UNCHANGED <<cmVars, codecVars, streamVars, envVars, histVars, dlVars>>
    /\ UNCHANGED <<sy_subs, sy_unsubs, syLocals, sy_result, dv_pc, dv_list, dv_hs>>

\* the next PacketStream.create of connect (bb16.py:440-442, 260-265):
\* start_notify subscribes the characteristic or raises; after the third one
\* __aenter__ returns and the body of the async with starts
connect_stream ==
    /\ sy_pc = "open"
    /\ \E ok \in BOOLEAN :
          IF ok THEN
              /\ sy_subs' = Append(sy_subs, OpenOrder[Len(sy_subs) + 1])
              /\ sy_pc' = IF Len(sy_subs') = Len(OpenOrder) THEN "entered" ELSE "open"
              /\ UNCHANGED sy_end
          ELSE
              sy_pc' = "ended" /\ sy_end' = "start_notify" /\ UNCHANGED sy_subs
    /\ UNCHANGED <<cmVars, codecVars, streamVars, envVars, histVars, dlVars>>
    /\ UNCHANGED <<sy_connected, sy_unsubs, syLocals, sy_result, dv_pc, dv_list, dv_hs>>

\* a sync that starts with the second request of the handshake
sync_status_first ==
    /\ sy_pc = "entered"
    /\ \E accepted \in BOOLEAN :
          IF accepted THEN
              /\ get_tx' = Append(get_tx, WireMsg(Msg("GetFileStatus", 0, NoArgs), get_seq))
              /\ sy_pc' = "hs1" /\ dv_pc' = "request"
              /\ UNCHANGED <<sy_result, dlCall>>
          ELSE Raise("transport", get_tx)
    /\ UNCHANGED <<cmVars, codecVars, streamVars, envVars, histVars>>
    /\ UNCHANGED <<files, get_seq, get_q, push_seq, push_q, get_sent, push_sent, push_tx>>
    /\ UNCHANGED <<syConn, syLocals, dv_list, dv_hs>>

\* sync: await self.get_stream.write(GetDeviceInfoRequest()) (bb16.py:507-508)
sync ==
    /\ sy_pc = "entered"
    /\ \E accepted \in BOOLEAN :
          IF accepted THEN
              /\ get_tx' = Append(get_tx,
                     WireMsg(Msg("GetDeviceInfoRequest", 0, NoArgs), get_seq))
              /\ sy_pc' = "hs1" /\ dv_pc' = "request"
              /\ UNCHANGED <<sy_result, dlCall>>
          ELSE Raise("transport", get_tx)
    /\ UNCHANGED <<cmVars, codecVars, streamVars, envVars, histVars>>
    /\ UNCHANGED <<files, get_seq, get_q, push_seq, push_q, get_sent, push_sent, push_tx>>
    /\ UNCHANGED <<syConn, syLocals, dv_list, dv_hs>>

\* devInfo = await self.get_stream.read(); logger.info(...);
\* await self.get_stream.write(GetFileStatus()) (bb16.py:509-512)
sync_devInfo ==
    /\ sy_pc = "hs1"
    /\ \E accepted \in BOOLEAN, accepted2 \in BOOLEAN :
          LET r == StreamRead(get_q, get_seq, accepted) IN
          /\ get_q' = r.q
          /\ get_seq' = r.seq
          /\ IF r.err # "none" THEN
                 Raise(r.err, get_tx) /\ UNCHANGED sy_devInfo
             ELSE
                 /\ sy_devInfo' = r.msg
                 /\ IF accepted2 THEN
                        /\ get_tx' = Append(get_tx \o r.acks,
                               WireMsg(Msg("GetFileStatus", 0, NoArgs), r.seq))
                        /\ sy_pc' = "hs2" /\ dv_pc' = "request"
                        /\ UNCHANGED <<sy_result, dlCall>>
                    ELSE Raise("transport", get_tx \o r.acks)
    /\ UNCHANGED <<cmVars, codecVars, streamVars, envVars, histVars>>
    /\ UNCHANGED <<files, push_seq, push_q, get_sent, push_sent, push_tx>>
    /\ UNCHANGED <<syConn, sy_fileStatus, sy_lines, sy_i, sy_filenames, sy_seen, sy_got,
                   dv_list, dv_hs>>

\* fileStatus = await self.get_stream.read(); logger.debug(...);
\* download_records: download_file("filelist.txt", save_dir) (bb16.py:513-516, 491)
sync_fileStatus ==
    /\ sy_pc = "hs2"
    /\ \E accepted \in BOOLEAN, accepted2 \in BOOLEAN :
          LET r == StreamRead(get_q, get_seq, accepted) IN
          /\ get_q' = r.q
          /\ get_seq' = r.seq
          /\ IF r.err # "none" THEN
                 Raise(r.err, get_tx) /\ UNCHANGED sy_fileStatus
             ELSE
                 /\ sy_fileStatus' = r.msg
                 /\ Call(FILELIST, "filelist", get_tx \o r.acks, r.seq, accepted2)
    /\ UNCHANGED <<cmVars, codecVars, streamVars, envVars, histVars>>
    /\ UNCHANGED <<files, push_seq, push_q, get_sent, push_sent, push_tx>>
    /\ UNCHANGED <<syConn, sy_devInfo, sy_lines, sy_i, sy_filenames, sy_seen, sy_got,
                   dv_list, dv_hs>>

\* download_records once download_file("filelist.txt") is over
\* (bb16.py:491-502): filenames = []; the lines of data.decode().strip(); the
\* loop up to its first download. None has no decode
download_records ==
    /\ sy_pc = "filelist"
    /\ dl_pc \in {"returned", "raised"}
    /\ IF dl_result.kind = "error" THEN
           Raise(dl_result.err, get_tx) /\ UNCHANGED <<sy_lines, sy_i, sy_seen>>
       ELSE IF dl_result.kind = "absent" THEN
           Raise("AttributeError", get_tx) /\ UNCHANGED <<sy_lines, sy_i, sy_seen>>
       ELSE IF decode(dl_result.data).err # "none" THEN
           Raise(decode(dl_result.data).err, get_tx) /\ UNCHANGED <<sy_lines, sy_i, sy_seen>>
       ELSE
           /\ sy_lines' = split(strip(decode(dl_result.data).val), 10)
           /\ Loop(sy_lines', 1)
    /\ sy_filenames' = <<>>
    /\ UNCHANGED <<cmVars, codecVars, streamVars, envVars, histVars>>
    /\ UNCHANGED <<files, get_seq, get_q, push_seq, push_q, get_sent, push_sent, push_tx>>
    /\ UNCHANGED <<syConn, sy_devInfo, sy_fileStatus, sy_got, dv_list, dv_hs>>

\* download_records once the download_file(name) of its loop is over
\* (bb16.py:502-503): filenames.append(name), then the loop goes on
download_records_next ==
    /\ sy_pc = "records"
    /\ dl_pc \in {"returned", "raised"}
    /\ IF dl_result.kind = "error" THEN
           /\ Raise(dl_result.err, get_tx)
           /\ UNCHANGED <<sy_i, sy_seen, sy_filenames, sy_got>>
       ELSE
           /\ sy_filenames' = Append(sy_filenames, dl_filename)
           /\ sy_got' = IF dl_result.kind = "data" THEN Append(sy_got, dl_filename)
                        ELSE sy_got
           /\ Loop(sy_lines, sy_i + 1)
    /\ UNCHANGED <<cmVars, codecVars, streamVars, envVars, histVars>>
    /\ UNCHANGED <<files, get_seq, get_q, push_seq, push_q, get_sent, push_sent, push_tx>>
    /\ UNCHANGED <<syConn, sy_devInfo, sy_fileStatus, sy_lines, dv_list, dv_hs>>

\* download_files once a download_file of its loop is over (bb16.py:486-488):
\* the next auxiliary file, or the end of sync, return updated_records (517-525)
download_files ==
    /\ sy_pc = "aux"
    /\ dl_pc \in {"returned", "raised"}
    /\ IF dl_result.kind = "error" THEN
           Raise(dl_result.err, get_tx) /\ UNCHANGED sy_i
       ELSE IF sy_i < Len(AuxFiles) THEN
           /\ sy_i' = sy_i + 1
           /\ \E accepted \in BOOLEAN :
                 Call(AuxFiles[sy_i + 1], "aux", get_tx, get_seq, accepted)
       ELSE
           /\ sy_result' = SyncResult("list", sy_filenames, "none", "none")
           /\ sy_pc' = "closing"
           /\ UNCHANGED <<sy_i, get_tx, dlCall, dv_pc>>
    /\ UNCHANGED <<cmVars, codecVars, streamVars, envVars, histVars>>
    /\ UNCHANGED <<files, get_seq, get_q, push_seq, push_q, get_sent, push_sent, push_tx>>
    /\ UNCHANGED <<syConn, sy_devInfo, sy_fileStatus, sy_lines, sy_filenames, sy_seen,
                   sy_got, dv_list, dv_hs>>

\* __aexit__ -> disconnect: the next close() (bb16.py:454-455, 445-447,
\* 283-284): stop_notify unsubscribes the characteristic or raises, and an
\* exception leaves disconnect and _run
disconnect_stream ==
    /\ sy_pc = "closing"
    /\ \E ok \in BOOLEAN :
          IF ok THEN
              /\ sy_unsubs' = Append(sy_unsubs, CloseOrder[Len(sy_unsubs) + 1])
              /\ sy_pc' = IF Len(sy_unsubs') = Len(CloseOrder) THEN "disconnecting"
                          ELSE "closing"
              /\ UNCHANGED sy_end
          ELSE
              sy_pc' = "ended" /\ sy_end' = "stop_notify" /\ UNCHANGED sy_unsubs
    /\ UNCHANGED <<cmVars, codecVars, streamVars, envVars, histVars, dlVars>>
    /\ UNCHANGED <<sy_connected, sy_subs, syLocals, sy_result, dv_pc, dv_list, dv_hs>>

\* await self.client.disconnect() (bb16.py:448); __aexit__ returns None, so an
\* exception of sync goes on out of _run (530-532)
disconnect_client ==
    /\ sy_pc = "disconnecting"
    /\ \E ok \in BOOLEAN :
          IF ok THEN
              /\ sy_connected' = FALSE
              /\ sy_end' = IF sy_result.kind = "error" THEN sy_result.err ELSE "ok"
          ELSE
              sy_end' = "disconnect" /\ UNCHANGED sy_connected
    /\ sy_pc' = "ended"
    /\ UNCHANGED <<cmVars, codecVars, streamVars, envVars, histVars, dlVars>>
    /\ UNCHANGED <<sy_subs, sy_unsubs, syLocals, sy_result, dv_pc, dv_list, dv_hs>>

-----------------------------------------------------------------------------
(* The sync command (main.py): download from the device, then upload what the
   history does not name *)

\* the iterations of while True a run of the command may begin
MaxCycles == 3

\* what a session may leave in DATA_DIR: two records and the listing
DataNames ==
    {[stem |-> "a", ext |-> "fit"], [stem |-> "b", ext |-> "fit"],
     [stem |-> "filelist", ext |-> "txt"]}

\* load_history (main.py:46-55): the names in the file; the empty set when the
\* file does not exist, cannot be read or does not hold JSON
load_history(file, readable) ==
    IF file.kind = "json" /\ readable THEN file.names ELSE {}

\* save_history (main.py:58-64): open(..., "w") and json.dump; an IOError is
\* logged.  The open may fail and leave the file as it was, or the write may
\* fail after the open has truncated the file.
save_history(file, history, io) ==
    CASE io = "written" -> [kind |-> "json", names |-> history]
      [] io = "unopened" -> file
      [] io = "truncated" -> [kind |-> "corrupt", names |-> {}]

\* main.py:254-259: history.add(f.name) after upload_record returned True
HistoryAfter(history, name, ok) ==
    IF ok THEN history \cup {name} ELSE history

\* main.py:219: the *.fit files of DATA_DIR whose name is not in history
new_files(dir, history) ==
    {f \in dir : f.ext = "fit" /\ f \notin history}

CommandIdle ==
    /\ cm_pc = "idle" /\ cm_once = FALSE /\ cm_creds = FALSE /\ cm_session = FALSE
    /\ cm_dir = {} /\ cm_file = [kind |-> "missing", names |-> {}]
    /\ cm_history = {} /\ cm_new = <<>> /\ cm_i = 0 /\ cm_exit = "none"
    /\ cm_cycle = 0 /\ cm_npass = 0 /\ cm_nupl = 0 /\ cm_uploaded = {}
    /\ cm_last = [op |-> "none", file |-> [stem |-> "", ext |-> ""], ok |-> FALSE]
    /\ cm_failed = {} /\ cm_retry = {} /\ cm_tried = {}

\* main.py:214-216: if not bb16.download(): continue.  download() returns
\* False when _run raised and True otherwise (bb16.py:534-550); either way the
\* session may have saved files.
main_sync_download ==
    /\ cm_pc = "loop" /\ cm_cycle < MaxCycles
    /\ \E ok \in BOOLEAN, saved \in SUBSET DataNames :
          /\ cm_dir' = cm_dir \cup saved
          /\ cm_pc' = IF ok THEN "pass" ELSE "loop"
    /\ cm_cycle' = cm_cycle + 1
    /\ UNCHANGED <<cm_once, cm_creds, cm_session, cm_file, cm_history, cm_new, cm_i,
                   cm_exit, cm_npass, cm_nupl, cm_uploaded, cm_last, cm_failed,
                   cm_retry, cm_tried>>
    /\ UNCHANGED <<codecVars, streamVars, envVars, histVars, dlVars, syVars>>

\* main.py:218-220: history = load_history(); new_files = [...], in the order
\* glob yields them
main_sync_load ==
    /\ cm_pc = "pass"
    /\ \E readable \in BOOLEAN :
          /\ cm_history' = load_history(cm_file, readable)
          /\ \E order \in [1..Cardinality(new_files(cm_dir, cm_history')) ->
                              new_files(cm_dir, cm_history')] :
                /\ \A j, k \in DOMAIN order : j # k => order[j] # order[k]
                /\ cm_new' = order
    /\ cm_i' = 1 /\ cm_pc' = "session" /\ cm_npass' = cm_npass + 1
    /\ cm_retry' = cm_failed /\ cm_failed' = {} /\ cm_tried' = {}
    /\ UNCHANGED <<cm_once, cm_creds, cm_session, cm_dir, cm_file, cm_exit, cm_cycle,
                   cm_nupl, cm_uploaded, cm_last>>
    /\ UNCHANGED <<codecVars, streamVars, envVars, histVars, dlVars, syVars>>

\* main.py:222-238: get_session(); without a session, authenticate with the
\* credentials (which may raise) or return
main_sync_session ==
    /\ cm_pc = "session"
    /\ \/ /\ cm_session
          /\ cm_pc' = "files" /\ UNCHANGED <<cm_session, cm_exit>>
       \/ /\ ~cm_session /\ cm_creds
          /\ \E ok \in BOOLEAN :
                IF ok THEN cm_session' = TRUE /\ cm_pc' = "files" /\ UNCHANGED cm_exit
                ELSE cm_pc' = "ended" /\ cm_exit' = "raise" /\ UNCHANGED cm_session
       \/ /\ ~cm_session /\ ~cm_creds
          /\ cm_pc' = "ended" /\ cm_exit' = "return" /\ UNCHANGED cm_session
    /\ UNCHANGED <<cm_once, cm_creds, cm_dir, cm_file, cm_history, cm_new, cm_i,
                   cm_cycle, cm_npass, cm_nupl, cm_uploaded, cm_last, cm_failed,
                   cm_retry, cm_tried>>
    /\ UNCHANGED <<codecVars, streamVars, envVars, histVars, dlVars, syVars>>

\* main.py:239-260, one turn of for f in new_files: the conversion (an
\* exception is logged, continue), upload_record (False is logged, continue;
\* uploader.py:31-82), history.add(f.name), save_history(history)
main_sync_file ==
    /\ cm_pc = "files" /\ cm_i <= Len(cm_new)
    /\ LET f == cm_new[cm_i] IN
       /\ cm_tried' = cm_tried \cup {f}
       /\ \/ /\ cm_last' = [op |-> "convert", file |-> f, ok |-> FALSE]
             /\ cm_failed' = cm_failed \cup {f}
             /\ UNCHANGED <<cm_history, cm_file, cm_nupl, cm_uploaded>>
          \/ /\ cm_nupl' = cm_nupl + 1
             /\ \E ok \in BOOLEAN, io \in {"written", "unopened", "truncated"} :
                   /\ cm_last' = [op |-> "upload", file |-> f, ok |-> ok]
                   /\ cm_history' = HistoryAfter(cm_history, f, ok)
                   /\ cm_file' = IF ok THEN save_history(cm_file, cm_history', io)
                                 ELSE cm_file
                   /\ cm_uploaded' = IF ok THEN cm_uploaded \cup {f} ELSE cm_uploaded
                   /\ cm_failed' = IF ok THEN cm_failed ELSE cm_failed \cup {f}
    /\ cm_i' = cm_i + 1
    /\ UNCHANGED <<cm_pc, cm_once, cm_creds, cm_session, cm_dir, cm_new, cm_exit,
                   cm_cycle, cm_npass, cm_retry>>
    /\ UNCHANGED <<codecVars, streamVars, envVars, histVars, dlVars, syVars>>

\* main.py:262-269: after the for loop, break with --once, else sleep
\* SYNC_INTERVAL seconds and go round
main_sync_end ==
    /\ cm_pc = "files" /\ cm_i > Len(cm_new)
    /\ IF cm_once THEN cm_pc' = "ended" /\ cm_exit' = "break"
       ELSE cm_pc' = "loop" /\ UNCHANGED cm_exit
    /\ UNCHANGED <<cm_once, cm_creds, cm_session, cm_dir, cm_file, cm_history, cm_new,
                   cm_i, cm_cycle, cm_npass, cm_nupl, cm_uploaded, cm_last, cm_failed,
                   cm_retry, cm_tried>>
    /\ UNCHANGED <<codecVars, streamVars, envVars, histVars, dlVars, syVars>>

-----------------------------------------------------------------------------
(* Specifications *)

\* the packet stream with its peer
Init == CodecIdle /\ StreamInit /\ DownloadIdle /\ SyncIdle /\ CommandIdle

Next ==
    \/ PeerSend
    \/ PeerSendSkewed
    \/ PeerSendCorrupt
    \/ Notify
    \/ write
    \/ read_timeout
    \/ read_pop
    \/ read_ack
    \/ clear

Spec == Init /\ [][Next]_vars

\* the codec applied to drawn inputs
InitCodec == CodecInit /\ StreamInit /\ DownloadIdle /\ SyncIdle /\ CommandIdle

NextCodec ==
    \/ Escape
    \/ Unescape
    \/ UnescapeRaw
    \/ ToBytes
    \/ Corrupt
    \/ Forge
    \/ Ack
    \/ FromBytes

SpecCodec == InitCodec /\ [][NextCodec]_vars

\* one download_file call against a device
InitDownload == CodecIdle /\ StreamInit /\ DownloadInit /\ SyncIdle /\ CommandIdle

NextDownload ==
    \/ DevGet
    \/ DevPush
    \/ download_file
    \/ download_file_resp
    \/ download_file_info
    \/ download_file_frag

SpecDownload == InitDownload /\ [][NextDownload]_vars

\* one session against a device
InitSync == CodecIdle /\ StreamInit /\ SyncInit /\ CommandIdle

NextSync ==
    \/ DevHandshake
    \/ DevFile
    \/ DevSend
    \/ connect_client
    \/ connect_stream
    \/ sync
    \/ sync_devInfo
    \/ sync_fileStatus
    \/ download_records
    \/ download_records_next
    \/ download_files
    \/ download_file_resp
    \/ download_file_info
    \/ download_file_frag
    \/ disconnect_stream
    \/ disconnect_client

SpecSync == InitSync /\ [][NextSync]_vars

\* one run of the sync command
\* about to enter while True (main.py:211-214), with or without --once, a
\* cached session and credentials; DATA_DIR is empty and holds no history file
InitCommand ==
    /\ CodecIdle /\ StreamInit /\ DownloadIdle /\ SyncIdle
    /\ cm_pc = "loop"
    /\ cm_once \in BOOLEAN /\ cm_creds \in BOOLEAN /\ cm_session \in BOOLEAN
    /\ cm_dir = {} /\ cm_file = [kind |-> "missing", names |-> {}]
    /\ cm_history = {} /\ cm_new = <<>> /\ cm_i = 0 /\ cm_exit = "none"
    /\ cm_cycle = 0 /\ cm_npass = 0 /\ cm_nupl = 0 /\ cm_uploaded = {}
    /\ cm_last = [op |-> "none", file |-> [stem |-> "", ext |-> ""], ok |-> FALSE]
    /\ cm_failed = {} /\ cm_retry = {} /\ cm_tried = {}

NextCommand ==
    \/ main_sync_download
    \/ main_sync_load
    \/ main_sync_session
    \/ main_sync_file
    \/ main_sync_end

SpecCommand == InitCommand /\ [][NextCommand]_vars

-----------------------------------------------------------------------------
(* Properties of the packet stream (checked under Spec) *)

\* what the frame decodes to that the last operation wrote
TxMsg == from_bytes(tx[1]).msg

FramingOrCrc == {"start", "end", "escape", "length", "crc"}

\* C1 (sequence law): while the peer's frames carry sid = position mod 16 and
\* nothing else has failed, the read that pops the frame at position k passes
\* the sid check when that frame carries k mod 16 and fails with the sequence
\* error when it carries any other sid; the read that passed returns its
\* message, so that every read before a bad frame has succeeded, across the
\* 15 -> 0 wrap as well.
C1_SequenceLaw ==
    /\ [][(goodsofar /\ ndeq' = ndeq + 1) =>
            LET e == Head(rx_messages) IN
            /\ e.stamp = ndeq
            /\ nret = ndeq
            /\ seq = ndeq % 16
            /\ IF e.m.sid = e.stamp % 16
                 THEN rd_pc' = "acking" /\ rd_msg' = e
                 ELSE last'.op = "read" /\ last'.err = "sid" /\ rd_pc' = "idle"]_vars
    /\ [][(goodsofar /\ rd_pc = "acking" /\ rd_pc' = "idle" /\ ~faulted') =>
            /\ last'.op = "read" /\ last'.err = "none"
            /\ last'.m = rd_msg.m
            /\ nret' = ndeq]_vars

\* 17 frames in sequence have been read: the last one carries sid 0 again
C1_Witness ==
    /\ goodsofar /\ nret = 17
    /\ last.op = "read" /\ last.err = "none" /\ last.stamp = 16 /\ last.m.sid = 0

\* C2: the ack frame a successful read() has written carries the sid of the
\* message it returns, which is seq before the increment and never seq after it.
C2_AckCarriesReceivedSid ==
    (last.op = "read" /\ last.err = "none") =>
        /\ Len(tx) = 1
        /\ from_bytes(tx[1]).err = "none"
        /\ trans_type(TxMsg) = TransType.Ack
        /\ TxMsg.sid = last.m.sid
        /\ NextSeq(TxMsg.sid) = seq
        /\ TxMsg.sid # seq

\* the message with sid 15 has been acknowledged with 15 and seq is 0 again
C2_Witness ==
    /\ last.op = "read" /\ last.err = "none" /\ last.m.sid = 15 /\ seq = 0
    /\ Len(tx) = 1 /\ TxMsg.sid = 15

\* C3: when read() returns a message the transport has accepted exactly one
\* frame in that call, the ack of that message; as many acks as returned
\* messages have been written; a read() that fails the sid check, or that has
\* not yet returned, has written nothing.
C3_AckBeforeDelivery ==
    /\ nack = nret
    /\ (last.op = "read" /\ last.err = "none") =>
          /\ Len(tx) = 1
          /\ from_bytes(tx[1]) = ack(last.m)
    /\ (last.op = "read" /\ last.err # "none") => tx = <<>>
    /\ rd_pc = "acking" => tx = <<>>

\* a read() has failed the sid check after others had returned their messages
C3_Witness ==
    /\ last.op = "read" /\ last.err = "sid" /\ tx = <<>>
    /\ nret > 0 /\ nack = nret

\* C4: write(message) hands the transport a frame whose sid is the stream's
\* seq, whatever sid the message holds.
C4_WriteCarriesSeq ==
    (last.op = "write" /\ last.err = "none") =>
        /\ Len(tx) = 1
        /\ from_bytes(tx[1]).err = "none"
        /\ TxMsg.sid = seq

\* C5: seq starts at 0, stays in 0..15 and changes only by +1 modulo 16, in
\* the step in which a read() that passed the sid check returns.
C5_SeqLaw ==
    /\ seq = 0
    /\ [](seq \in 0..15)
    /\ [][seq' # seq =>
            /\ seq' = (seq + 1) % 16
            /\ rd_pc = "acking" /\ rd_msg.m.sid = seq
            /\ last'.op = "read" /\ last'.err = "none"]_vars

\* seq has gone once around
C5_Witness == seq = 0 /\ nret = 16 /\ last.op = "read" /\ last.err = "none"

\* C6: messages wait in rx_messages in the order of their arrival, each being
\* the message the peer sent at that position; read() returns them in strictly
\* increasing order of arrival, always the oldest one waiting.
C6_Fifo ==
    /\ [](\A i \in 1..Len(rx_messages) :
            /\ rx_messages[i].stamp > lastret
            /\ i > 1 => rx_messages[i - 1].stamp < rx_messages[i].stamp
            /\ rx_messages[i].m.cls = PeerMessage(rx_messages[i].stamp, 0).cls)
    /\ [][ndeq' # ndeq =>
            /\ rd_msg' \in {NoEntry, Head(rx_messages)}
            /\ last'.stamp = Head(rx_messages).stamp]_vars
    /\ [][nret' # nret =>
            /\ nret' = nret + 1
            /\ lastret' > lastret
            /\ last'.stamp = lastret' /\ last'.m = rd_msg.m
            /\ last'.m.cls = PeerMessage(lastret', 0).cls
            /\ \A i \in 1..Len(rx_messages) : rx_messages[i].stamp > lastret']_vars

\* the second message has been returned while a third one waits
C6_Witness ==
    /\ last.op = "read" /\ last.err = "none" /\ lastret = 1
    /\ Len(rx_messages) = 1 /\ rx_messages[1].stamp = 2

\* C7: after on_notify has rejected its input with a framing or CRC error the
\* reassembly buffer is empty.
C7_BufferDiscardedOnError ==
    (last.op = "on_notify" /\ last.err \in FramingOrCrc) => rx_buf = <<>>

-----------------------------------------------------------------------------
(* Properties of the codec (checked under SpecCodec) *)

\* C8 (encode/decode round trip): from_bytes(m.to_bytes()) is a message of
\* the class of m with the sid, cmd_type, trans_type, oid and payload fields of m.
C8_RoundTrip ==
    cx_pc = "decoded" =>
        /\ cx_dec.err = "none"
        /\ cx_dec.msg.cls = cx_msg.cls
        /\ cx_dec.msg.sid = cx_msg.sid
        /\ cmd_type(cx_dec.msg) = cmd_type(cx_msg)
        /\ trans_type(cx_dec.msg) = trans_type(cx_msg)
        /\ oid(cx_dec.msg) = oid(cx_msg)
        /\ cx_dec.msg.args = cx_msg.args

\* a FileInfo with a negative size and a name that needs escaping came back
C8_Witness ==
    /\ cx_pc = "decoded" /\ cx_msg.cls = "FileInfo" /\ cx_msg.sid = 14
    /\ cx_msg.args.size = -1 /\ cx_msg.args.filename = <<125>>
    /\ cx_dec.msg = cx_msg

\* C9 (CRC sensitivity): a frame of to_bytes with one bit inverted between
\* the delimiters never decodes: from_bytes fails with the CRC mismatch or a
\* framing error (bad escape, bad length).
C9_BitFlipRejected ==
    cx_pc = "decoded_corrupted" =>
        /\ cx_dec.err \in FramingOrCrc
        /\ cx_dec.msg = NoMessage

\* a GetFile frame with one bit inverted has failed the CRC comparison
C9_Witness ==
    /\ cx_pc = "decoded_corrupted" /\ cx_msg.cls = "GetFile" /\ cx_dec.err = "crc"
    /\ Len(cx_wire) = Len(to_bytes(cx_msg, 0)) /\ cx_wire # to_bytes(cx_msg, 0)

\* C10 (framing round trip): unescape(escape(b)) = b for every byte string b.
C10_EscapeRoundTrip ==
    cx_pc = "unescaped" => (cx_unesc.err = "none" /\ cx_unesc.val = cx_in)

\* the three bytes that need escaping came back
C10_Witness ==
    /\ cx_pc = "unescaped" /\ cx_in = <<125, 126, 127>>
    /\ cx_wire = <<125, 1, 125, 2, 125, 3>> /\ cx_unesc.val = cx_in

\* the unescaped body (header through CRC) of the frame in cx_wire
WireBody == unescape(Slice(cx_wire, 2, Len(cx_wire) - 1)).val

\* the two bytes that stand for byte b on the wire, or b itself
EscapedByte(b) == IF b \in {125, 126, 127} THEN <<125, b - 124>> ELSE <<b>>

RECURSIVE EscapedBytes(_)
EscapedBytes(data) ==
    IF data = <<>> THEN <<>> ELSE EscapedByte(Head(data)) \o EscapedBytes(Tail(data))

\* C11: escape replaces every byte b of 0x7D, 0x7E, 0x7F by 0x7D, (b - 0x7C)
\* and copies every other byte, so that its output holds no 0x7E and no 0x7F.
C11_EscapeOutput ==
    cx_pc = "escaped" =>
        /\ cx_wire = EscapedBytes(cx_in)
        /\ \A i \in 1..Len(cx_wire) : cx_wire[i] \notin {126, 127}

\* both delimiters around an ordinary byte have been escaped
C11_Witness ==
    /\ cx_pc = "escaped" /\ cx_in = <<126, 0, 127>>
    /\ cx_wire = <<125, 2, 0, 125, 3>>

\* C12 (length self-consistency): the LEN field of a frame of to_bytes is the
\* length of its unescaped body, header through CRC; from_bytes rejects every
\* frame whose LEN field is any other number than that length.
C12_LengthConsistent ==
    /\ cx_pc = "encoded" =>
          /\ Len(WireBody) = Len(export_payload(cx_msg))
                             + (IF trans_type(cx_msg) = TransType.Ack THEN 5 ELSE 7)
          /\ FromBE(Slice(WireBody, 2, 3)) = Len(WireBody)
    /\ (cx_pc = "decoded_forged" /\ FromBE(Slice(WireBody, 2, 3)) # Len(WireBody)) =>
          /\ cx_dec.err = "length"
          /\ cx_dec.msg = NoMessage

\* a GetFileStatus frame with a correct CRC and a LEN one too large was rejected
C12_Witness ==
    /\ cx_pc = "decoded_forged" /\ cx_dec.err = "length"
    /\ WireBody[1] = 3 /\ Slice(WireBody, 4, 5) = ToBE16(Oid.GetFileStatus)
    /\ Len(WireBody) = 7 /\ FromBE(Slice(WireBody, 2, 3)) = 8

\* C13 (ack shape): m.ack() exists for every message m, carries the sid of m,
\* and encodes to a body of exactly 5 bytes: header, LEN = 5 and CRC, with no
\* OID and no payload.
C13_AckShape ==
    cx_pc = "acked" =>
        /\ cx_dec.err = "none"
        /\ cx_dec.msg.sid = cx_msg.sid
        /\ cmd_type(cx_dec.msg) = cmd_type(cx_msg)
        /\ trans_type(cx_dec.msg) = TransType.Ack
        /\ Len(WireBody) = 5
        /\ FromBE(Slice(WireBody, 2, 3)) = 5
        /\ WireBody[1] = cmd_type(cx_msg) * 64 + TransType.Ack * 16 + cx_msg.sid
        /\ from_bytes(cx_wire) = [err |-> "none", msg |-> cx_dec.msg]

\* the ack of a ReceiveFile fragment with sid 13 is a GetAck with sid 13
C13_Witness ==
    /\ cx_pc = "acked" /\ cx_msg.cls = "ReceiveFile" /\ cx_msg.sid = 13
    /\ cx_dec.msg = Msg("GetAck", 13, NoArgs) /\ Len(WireBody) = 5

\* C14: a message that from_bytes returns has oid Invalid and no payload if
\* its trans_type is Ack, and an oid other than Invalid if it is not.
C14_MessageInvariant ==
    (cx_pc \in {"decoded", "decoded_corrupted", "decoded_forged"} /\ cx_dec.err = "none") =>
        LET m == cx_dec.msg IN
        IF trans_type(m) = TransType.Ack
          THEN oid(m) = Oid.Invalid /\ m.args = NoArgs /\ export_payload(m) = <<>>
          ELSE oid(m) # Oid.Invalid

\* an Ack frame made by a peer has been decoded
C14_Witness ==
    /\ cx_pc = "decoded_forged" /\ cx_dec.err = "none"
    /\ cx_dec.msg = Msg("GetAck", 1, NoArgs) /\ Len(WireBody) = 5

-----------------------------------------------------------------------------
(* Properties of download_file (checked under SpecDownload) *)

\* save_dir is as it was before the call
FilesUntouched == files[<<98>>] = NoFile /\ files[<<97>>] \in OldContents

RECURSIVE FragsData(_)
\* the data of a sequence of fragments, one after the other
FragsData(frags) ==
    IF frags = <<>> THEN <<>> ELSE Head(frags).data \o FragsData(Tail(frags))

\* C15 (download size law): the data download_file returns has the length
\* that the FileInfo of the transfer announced.
C15_SizeLaw ==
    dl_result.kind = "data" => Len(dl_result.data) = dl_info.args.size

\* C16 (oversize protection): a download that goes on holds no more bytes
\* than the FileInfo announced.
C16_NoOverrun ==
    (dl_pc = "await_frag" /\ dl_info.cls = "FileInfo") =>
        Len(dl_data) <= dl_info.args.size

\* C17: download_file goes on after the FileInfo, or returns data, only if
\* the FileInfo names the requested file.
C17_FileNameChecked ==
    (dl_pc \in {"await_frag", "returned"} /\ dl_info.cls = "FileInfo") =>
        dl_info.args.filename = dl_filename

\* C18: when the response read on GET says exist = false, download_file
\* returns the absent result in that step, without an error, without a read
\* on PUSH and without a change of save_dir.
C18_AbsentFile ==
    /\ [](dl_result = Absent =>
            /\ dl_pc = "returned"
            /\ dl_reads = 0 /\ push_seq = 0 /\ push_tx = <<>>
            /\ dl_info = NoMessage /\ dl_data = <<>>
            /\ FilesUntouched)
    /\ [][(dl_pc = "await_resp" /\ get_seq' # get_seq
           /\ Head(get_q).cls = "GetFileResponse" /\ ~Head(get_q).args.exist) =>
            /\ dl_pc' = "returned" /\ dl_result' = Absent
            /\ files' = files /\ push_q' = push_q /\ dl_reads' = dl_reads]_vars

\* the file is absent, the older file of that name is still there and what
\* the device pushed nevertheless has not been read
C18_Witness ==
    /\ dl_result = Absent /\ dl_save /\ files[<<97>>] = <<120>>
    /\ push_q # <<>> /\ dl_reads = 0

\* C19: the data a download returns is the concatenation, in the order they
\* were read, of the data of all fragments read on PUSH after the FileInfo;
\* the last of them is the first with flag Last or Single, and no read follows.
C19_Concatenation ==
    /\ [](dl_result.kind = "data" =>
            /\ dl_pc = "returned"
            /\ dl_result.data = FragsData(dl_frags)
            /\ dl_frags # <<>>
            /\ \A i \in 1..Len(dl_frags) : dl_frags[i].final <=> i = Len(dl_frags)
            /\ dl_reads = 1 + Len(dl_frags))
    /\ [][dl_frags' # dl_frags =>
            /\ dl_pc = "await_frag" /\ push_q # <<>>
            /\ push_q' = Tail(push_q)
            /\ Head(push_q).cls = "ReceiveFile"
            /\ dl_frags' = Append(dl_frags,
                   [data |-> Head(push_q).args.data,
                    final |-> Head(push_q).args.flag \in FinalFlags])]_vars
    /\ [][dl_pc = "returned" => UNCHANGED <<dl_reads, push_q, push_seq, dl_result>>]_vars

\* three fragments a, bc, a have been returned as abca
C19_Witness ==
    /\ dl_result = Returned(<<97, 98, 99, 97>>)
    /\ Len(dl_frags) = 3 /\ dl_frags[2].data = <<98, 99>>
    /\ dl_reads = 4

\* C20: save_dir changes only in the step that reads a fragment with flag
\* Last or Single, and then by the file of the requested name getting the
\* data returned; a download that has raised has left save_dir as it was.
C20_NoPartialFile ==
    /\ [](dl_pc \in {"await_resp", "await_info", "await_frag", "raised"} => FilesUntouched)
    /\ [][files' # files =>
            /\ dl_pc = "await_frag" /\ dl_pc' = "returned"
            /\ push_q # <<>> /\ Head(push_q).cls = "ReceiveFile"
            /\ Head(push_q).args.flag \in FinalFlags
            /\ dl_save
            /\ dl_result'.kind = "data"
            /\ files' = [files EXCEPT ![dl_filename] = dl_result'.data]]_vars

\* a read has failed the sid check after two fragments; the older file is intact
C20_Witness ==
    /\ dl_pc = "raised" /\ dl_result.err = "sid" /\ Len(dl_frags) = 2
    /\ dl_save /\ files[<<97>>] = <<120>>

-----------------------------------------------------------------------------
(* Further properties of the packet stream (checked under Spec) *)

\* C21: a read() that times out raises TimeoutError and leaves seq, the
\* queue, the semaphore and the reassembly buffer (with the part of a frame
\* it holds) as they were, and writes nothing; when the rest of the frame
\* arrives next, the whole frame is decoded and queued for the next read.
C21_TimeoutLeavesStream ==
    /\ [][(last'.op = "read" /\ last'.err = "timeout") =>
            /\ UNCHANGED <<seq, rx_buf, rx_messages, rx_sem, rd_pc, rd_msg>>
            /\ tx' = <<>> /\ nack' = nack /\ nret' = nret]_vars
    /\ [][(last.op = "read" /\ last.err = "timeout" /\ nrx' = nrx + 1) =>
            /\ from_bytes(rx_buf \o air).err = "none"
            /\ rx_messages' = <<[m |-> from_bytes(rx_buf \o air).msg, stamp |-> nrx]>>
            /\ rx_sem' = 1 /\ rx_buf' = <<>>]_vars

\* a read() has timed out while the second frame was half received
C21_Witness ==
    /\ last.op = "read" /\ last.err = "timeout"
    /\ rx_buf # <<>> /\ air # <<>> /\ seq = 1 /\ nret = 1

\* C22: an Ack frame that arrives from the peer is not checked against seq,
\* does not advance seq and is not acknowledged.
C22_AcksNotValidated ==
    /\ [][(ndeq' = ndeq + 1 /\ trans_type(Head(rx_messages).m) = TransType.Ack) =>
            last'.err # "sid"]_vars
    /\ [][(rd_pc = "acking" /\ trans_type(rd_msg.m) = TransType.Ack) =>
            (seq' = seq /\ tx' = <<>>)]_vars

\* C23: when the transport rejects the ack write, read() still returns the
\* message and advances seq.
C23_AckBestEffort ==
    [][(rd_pc = "acking" /\ rd_pc' = "idle") =>
            /\ last'.op = "read" /\ last'.err = "none"
            /\ last'.m = rd_msg.m
            /\ seq' = NextSeq(seq) /\ nret' = nret + 1]_vars


-----------------------------------------------------------------------------
(* Properties of one session (checked under SpecSync) *)

\* a GetFile has been written on GET
GetFileSent == \E k \in 1..Len(get_tx) : get_tx[k].cls = "GetFile"

\* C24 (handshake checked): sync goes past its first step only when the
\* message read on GET is a GetDeviceInfoResponse and past its second step
\* only when it is a GetFileStatusResponse, so that a GetFile is written only
\* after these two messages have been read.
C24_HandshakeChecked ==
    /\ sy_pc = "hs2" => sy_devInfo.cls = "GetDeviceInfoResponse"
    /\ GetFileSent => /\ sy_devInfo.cls = "GetDeviceInfoResponse"
                      /\ sy_fileStatus.cls = "GetFileStatusResponse"

\* C25 (release on every exit): when the session has ended, every
\* characteristic start_notify subscribed has been unsubscribed by stop_notify
\* and the client that was connected has been disconnected.
C25_Released ==
    sy_pc = "ended" =>
        /\ ~sy_connected
        /\ \A k \in 1..Len(sy_subs) : \E j \in 1..Len(sy_unsubs) : sy_unsubs[j] = sy_subs[k]

Reverse(q) == [k \in 1..Len(q) |-> q[Len(q) + 1 - k]]

\* C26 (reverse order): the streams closed so far are the last ones connect
\* opened, closed in the reverse of the order of opening.
C26_ReverseOrder ==
    /\ Len(sy_unsubs) <= Len(sy_subs)
    /\ sy_unsubs = SubSeq(Reverse(sy_subs), 1, Len(sy_unsubs))

\* the GetFile requests written for records, and the listings download_file
\* was called for
RecordRequests ==
    LET isRecord(m) == m.cls = "GetFile" /\ m.args.filename \in {<<97>>, <<98>>}
    IN  SelectSeq(get_tx, isRecord)
Asked ==
    LET sent(e) == e.sent
    IN  SelectSeq(sy_seen, sent)

\* C27 (skip rule): for every listing (name, size) the loop of
\* download_records reaches, download_file(name) is called, and its GetFile
\* handed to the transport, exactly when save_dir holds no file of that name
\* with exactly size bytes at that time: a missing file and a file of another
\* size are asked for, a file of that size is not. The GetFile requests
\* written for records are those of the listings asked for, in order.
C27_SkipRule ==
    /\ [](\A k \in 1..Len(sy_seen) :
            sy_seen[k].sent <=> (sy_seen[k].ondisk # sy_seen[k].size))
    /\ [](/\ Len(RecordRequests) <= Len(Asked)
          /\ \A k \in 1..Len(RecordRequests) :
                RecordRequests[k].args.filename = Asked[k].name)
    /\ [][Len(RecordRequests') > Len(RecordRequests) =>
            /\ Len(Asked') = Len(RecordRequests')
            /\ Len(sy_seen') > Len(sy_seen)
            /\ sy_seen'[Len(sy_seen')].sent]_vars

\* a record held with another size than the listed one has been asked for
\* again and saved, and a record held with the listed size has been passed over
C27_Witness ==
    /\ \E k \in 1..Len(sy_seen) :
          /\ sy_seen[k].sent /\ sy_seen[k].ondisk = 2 /\ sy_seen[k].size = 1
          /\ \E j \in 1..Len(get_tx) :
                get_tx[j].cls = "GetFile" /\ get_tx[j].args.filename = sy_seen[k].name
          /\ files[sy_seen[k].name] = <<120>>
    /\ \E k \in 1..Len(sy_seen) : ~sy_seen[k].sent /\ sy_seen[k].ondisk = sy_seen[k].size
    /\ sy_result.kind = "list"

\* C28 (returned list): the list sync returns holds exactly the records
\* download_file has returned data for during this sync, in listing order.
C28_ReturnsDownloaded ==
    sy_result.kind = "list" => sy_result.val = sy_got

\* C29 (auxiliary files are best-effort): sync does not fail in
\* download_files; once download_records has returned, sync returns its list.
C29_AuxBestEffort ==
    ~(sy_result.kind = "error" /\ sy_result.at = "aux")

\* the lines of the device's file list that are not blank
NonBlankLines ==
    LET notBlank(line) == strip(line) # <<>>
    IN  SelectSeq(split(dv_list, 10), notBlank)

\* C30 (blank lines): a blank line of filelist.txt never makes sync fail, and
\* when download_records has returned the listings it went through are those
\* of the non-blank lines, one for each, in order.
C30_BlankLinesIgnored ==
    /\ ~(sy_result.kind = "error" /\ sy_result.err = "ValueError")
    /\ (sy_pc = "aux" \/ sy_result.kind = "list") =>
          /\ Len(sy_seen) = Len(NonBlankLines)
          /\ \A k \in 1..Len(sy_seen) :
                /\ sy_seen[k].name = ParseLine(NonBlankLines[k]).name
                /\ sy_seen[k].size = ParseLine(NonBlankLines[k]).size

-----------------------------------------------------------------------------
(* Properties of clear, reassembly and readiness (checked under Spec) *)

\* C33 (clear): a clear() leaves the reassembly buffer empty, the queue empty
\* and the readiness count zero, in whatever state it finds the stream; as
\* long as no message has been enqueued since, queue and count stay so and a
\* read() that starts times out, returning nothing.
C33_ClearDrops ==
    /\ [][last'.op = "clear" =>
            (rx_buf' = <<>> /\ rx_messages' = <<>> /\ rx_sem' = 0)]_vars
    /\ [][(rx_messages = <<>> /\ rx_sem = 0 /\ nrx' = nrx) =>
            (rx_messages' = <<>> /\ rx_sem' = 0)]_vars
    /\ [][(rx_messages = <<>> /\ rx_sem = 0 /\ rd_pc = "idle" /\ last'.op = "read") =>
            (last'.err = "timeout" /\ nret' = nret /\ ndeq' = ndeq)]_vars

\* a read has timed out after a clear() that dropped queued messages
C33_Witness ==
    /\ nclear > 0 /\ ndeq < nrx /\ rx_messages = <<>>
    /\ last.op = "read" /\ last.err = "timeout"

\* C34 (reassembly): while the chunks of a valid frame are notified in order
\* to a stream whose buffer was empty at its start, every chunk but the last
\* enqueues nothing, signals nothing and leaves the frame so far in the
\* buffer; the last chunk enqueues exactly the decoding of the whole frame at
\* the end of the queue, raises the readiness count by one and leaves the
\* buffer empty.
C34_Reassembly ==
    [][(/\ air # <<>>
        /\ rx_buf \o air = PeerFrame[nrx % 3][nrx % 16]
        /\ last'.op = "on_notify") =>
          IF air' # <<>> THEN
              /\ rx_messages' = rx_messages /\ rx_sem' = rx_sem /\ nrx' = nrx
              /\ rx_buf' \o air' = rx_buf \o air
          ELSE
              /\ rx_messages' = Append(rx_messages,
                     [m |-> PeerMessage(nrx % 3, nrx % 16), stamp |-> nrx])
              /\ rx_sem' = rx_sem + 1 /\ nrx' = nrx + 1
              /\ rx_buf' = <<>>]_vars

\* a frame has been notified in chunks up to its last byte, to a stream with
\* a message still in its queue
C34_Witness ==
    /\ last.op = "on_notify" /\ last.err = "partial"
    /\ Len(air) = 1 /\ rx_buf \o air = PeerFrame[nrx % 3][nrx % 16]
    /\ Len(rx_messages) = 1 /\ rx_sem = 1

C39_SidFailureDropsMessage ==
    /\ [][(last'.op = "read" /\ last'.err = "sid") =>
            /\ rx_messages # <<>> /\ last'.stamp = Head(rx_messages).stamp
            /\ rx_messages' = Tail(rx_messages)
            /\ \A k \in 1..Len(rx_messages') : rx_messages'[k].stamp > last'.stamp
            /\ seq' = seq /\ tx' = <<>> /\ nack' = nack /\ nret' = nret
            /\ rd_pc' = "idle" /\ lastret' = lastret /\ lastret < last'.stamp
            /\ last'.stamp < nrx]_vars
    /\ [][(last.op = "read" /\ last.err = "sid") =>
            /\ \A k \in 1..Len(rx_messages') : rx_messages'[k].stamp > last.stamp
            /\ lastret' # last.stamp]_vars
    /\ [][\A k \in 1..Len(rx_messages') :
            \/ \E j \in 1..Len(rx_messages) : rx_messages'[k] = rx_messages[j]
            \/ rx_messages'[k].stamp = nrx]_vars
    /\ [][lastret' # lastret =>
            (rd_pc = "acking" /\ lastret' = rd_msg.stamp /\ lastret' > lastret)]_vars
    /\ [][(rd_pc' = "acking" /\ rd_pc = "idle") =>
            (rx_messages # <<>> /\ rd_msg' = Head(rx_messages))]_vars

\* a read has failed the sid check with another message left in the queue
C39_Witness ==
    /\ last.op = "read" /\ last.err = "sid"
    /\ rx_messages # <<>> /\ nret > 0

-----------------------------------------------------------------------------
(* Order of the session's traffic (checked under SpecSync) *)

\* C35 (handshake order): what is written on GET starts with
\* GetDeviceInfoRequest, the ack of the message read as devInfo,
\* GetFileStatus, the ack of the message read as fileStatus; every GetFile
\* comes after these four, and when sync has failed in the handshake no
\* GetFile has been written.
C35_HandshakeOrder ==
    /\ Len(get_tx) >= 1 => get_tx[1].cls = "GetDeviceInfoRequest"
    /\ Len(get_tx) >= 2 =>
          (sy_devInfo # NoMessage /\ get_tx[2] = ack(sy_devInfo).msg)
    /\ Len(get_tx) >= 3 => get_tx[3].cls = "GetFileStatus"
    /\ Len(get_tx) >= 4 =>
          (sy_fileStatus # NoMessage /\ get_tx[4] = ack(sy_fileStatus).msg)
    /\ \A k \in 1..Len(get_tx) : get_tx[k].cls = "GetFile" => k >= 5
    /\ (sy_result.kind = "error" /\ sy_result.at \in {"entered", "hs1", "hs2"}) =>
          ~GetFileSent
    /\ sy_pc \in {"start", "open", "entered"} => get_tx = <<>>

\* the first GetFile has been written after the two reads of the handshake
C35_Witness ==
    /\ Len(get_tx) = 5 /\ get_tx[5].cls = "GetFile"
    /\ sy_devInfo.cls = "GetDeviceInfoResponse"
    /\ sy_fileStatus.cls = "GetFileStatusResponse"

\* the file names of the GetFile requests written, in order
RequestedNames ==
    LET isGetFile(m) == m.cls = "GetFile"
        reqs == SelectSeq(get_tx, isGetFile)
    IN  [k \in 1..Len(reqs) |-> reqs[k].args.filename]

\* the names sync asks for when nothing fails: filelist.txt, the records asked
\* for in listing order, Setting.json, debug_info.txt, SensorDevice.txt,
\* SensorSearch.txt
ExpectedNames ==
    <<FILELIST>> \o [k \in 1..Len(Asked) |-> Asked[k].name]
    \o <<<<83, 101, 116, 116, 105, 110, 103, 46, 106, 115, 111, 110>>,
         <<100, 101, 98, 117, 103, 95, 105, 110, 102, 111, 46, 116, 120, 116>>,
         <<83, 101, 110, 115, 111, 114, 68, 101, 118, 105, 99, 101, 46, 116, 120, 116>>,
         <<83, 101, 110, 115, 111, 114, 83, 101, 97, 114, 99, 104, 46, 116, 120, 116>>>>

\* C36 (one transfer at a time, in order): a GetFile that follows another one
\* is written only when the download_file before it has returned, either
\* after the device answered exist == false or after it read and acknowledged
\* a Last or Single fragment and nothing the device pushed is left unread; the
\* names requested are, in order, filelist.txt, the records asked for in the
\* order of the lines of filelist.txt, then the four auxiliary files.
C36_OneTransferInOrder ==
    /\ [][(Len(RequestedNames') > Len(RequestedNames) /\ RequestedNames # <<>>) =>
            /\ dl_pc = "returned"
            /\ \/ dl_result.kind = "absent" /\ dl_frags = <<>>
               \/ /\ dl_result.kind = "data"
                  /\ dl_frags # <<>> /\ dl_frags[Len(dl_frags)].final
                  /\ push_tx # <<>> /\ trans_type(push_tx[Len(push_tx)]) = TransType.Ack
            /\ push_q = <<>> /\ get_q = <<>>]_vars
    /\ [](/\ Len(RequestedNames) <= Len(ExpectedNames)
          /\ RequestedNames = SubSeq(ExpectedNames, 1, Len(RequestedNames)))
    /\ [](\A k \in 1..Len(sy_seen) : sy_seen[k].name = ParseLine(sy_lines[k]).name)

\* sync has returned after asking for filelist.txt, two records and the four
\* auxiliary files, one of which the device did not have
C36_Witness ==
    /\ sy_result.kind = "list"
    /\ Len(RequestedNames) = 7
    /\ \E k \in 1..Len(AuxFiles) : files[AuxFiles[k]] = NoFile

\* the acks among the first n messages of a log of writes: one per message read
AcksIn(log, n) ==
    LET isAck(m) == trans_type(m) = TransType.Ack
    IN  Len(SelectSeq(SubSeq(log, 1, n), isAck))

\* C37 (lock-step numbering): every request written on GET carries as sid the
\* number of messages read on GET before it, modulo 16, and the message read
\* next, whose ack follows, carries that sid; get_stream.seq is the number of
\* messages read on GET and push_stream.seq the number read on PUSH, modulo
\* 16, and PUSH carries acks only.
C37_LockStep ==
    /\ \A k \in 1..Len(get_tx) :
          IF trans_type(get_tx[k]) = TransType.Ack
            THEN /\ k > 1 /\ trans_type(get_tx[k - 1]) # TransType.Ack
                 /\ get_tx[k].sid = get_tx[k - 1].sid
            ELSE get_tx[k].sid = AcksIn(get_tx, k - 1) % 16
    /\ get_seq = AcksIn(get_tx, Len(get_tx)) % 16
    /\ push_seq = Len(push_tx) % 16
    /\ \A k \in 1..Len(push_tx) :
          trans_type(push_tx[k]) = TransType.Ack /\ push_tx[k].sid = (k - 1) % 16

\* a GetFile carries sid 3 after three reads on GET while PUSH has read two
\* messages of its own
C37_Witness ==
    /\ Len(get_tx) = 7 /\ get_tx[7].cls = "GetFile" /\ get_tx[7].sid = 3
    /\ get_seq = 3 /\ push_seq = 2 /\ Len(push_tx) = 2

-----------------------------------------------------------------------------
(* Properties of the sync command (checked under SpecCommand) *)

\* C31 (idempotent uploads): once upload_record has returned True for a
\* file, upload_record is not called for that file again, in the same or in a
\* later cycle, whatever happens to the history file.
C31_NoSecondUpload ==
    [][cm_nupl' # cm_nupl => cm_last'.file \notin cm_uploaded]_vars

\* C32 (--once runs one iteration): with --once bb16.download() is called
\* once; after it has returned, whether True or False, the command is in its
\* upload pass or has ended, and it ends by the break after one upload pass.
C32_OnceSingleIteration ==
    cm_once =>
        /\ cm_cycle <= 1
        /\ cm_cycle = 1 => cm_pc \in {"pass", "session", "files", "ended"}
        /\ (cm_pc = "ended" /\ cm_exit = "break") => cm_npass = 1

\* the parts of C40 about what enters and leaves the history
C40_HistoryGrowsOnSuccess ==
    /\ [](cm_history \subseteq cm_uploaded)
    /\ [][cm_pc = "files" =>
            /\ cm_history \subseteq cm_history'
            /\ \A f \in cm_history' \ cm_history :
                  /\ cm_nupl' = cm_nupl + 1
                  /\ cm_last' = [op |-> "upload", file |-> f, ok |-> TRUE]
            /\ (cm_i' = cm_i + 1 /\ ~cm_last'.ok) =>
                  /\ cm_history' = cm_history /\ cm_file' = cm_file
                  /\ cm_last'.file \notin cm_history']_vars

\* C40 (history only after success): a name enters the history only when
\* upload_record has returned True for it; a file whose conversion or upload
\* fails is not added; during a pass the history loses no name; and a file
\* that failed in one pass is handled again by the for loop of the next pass.
C40_HistoryAfterSuccess ==
    /\ C40_HistoryGrowsOnSuccess
    /\ []((cm_pc = "files" /\ cm_i > Len(cm_new)) => cm_retry \subseteq cm_tried)
=============================================================================
